---- MODULE Spec2Model ----
(***************************************************************************)
(* Bill ingestion pipeline of the bill-calendar application: the creation  *)
(* gate (api/bills/create), the Gmail sync reconciler (api/sync-gmail),    *)
(* the resync preparation (api/resync-gmail), soft deletion and payments   *)
(* (dashboard), the edit form (bills page), the Stripe webhook endpoint     *)
(* (api/stripe/webhook), the preferences requests (api/preferences, the    *)
(* Google OAuth callback, the checkout and portal requests), the duplicate *)
(* cleanup (api/cleanup-duplicates) and the extractor (lib/bill-parser).   *)
(* The gate and a turn of the sync loop are also given step by step, for   *)
(* requests in progress at the same time.                                  *)
(*                                                                         *)
(* One owner is modelled: every query of the code is filtered by user_id,  *)
(* so owners do not interact.  Amounts are integers in thousandths of a    *)
(* dollar ("mills") so that the rounding to DECIMAL(10,2) is visible.      *)
(* Names are tuples of one-character strings so that ILIKE can be computed.*)
(* Time is counted in whole hours.                                         *)
(***************************************************************************)
EXTENDS Integers, Sequences, FiniteSets, TLC

VARIABLES
    bills,          \* table bills: set of rows
    nextBillId,     \* stands for uuid_generate_v4(): next unused id
    payments,       \* table payments: set of rows [id, bill_id, paid_at]
    nextPaymentId,
    syncedEmails,   \* table synced_emails: set of rows [email_id, bill_id]
    rejectedBills,  \* table rejected_bills: set of rows
    prefs,          \* the owner's user_preferences row
    mailbox,        \* Gmail: set of messages [id, date]
    now,            \* wall clock, in hours
    sync,           \* the sync request in progress (one per process)
    gateLog,        \* what the last step's call of the creation gate saw and answered
    cand,           \* what the last step did, when it processed a sync candidate
    lastRun,        \* "none", or how the last sync run ended if nothing happened since
    quotaRejected,  \* history: email ids a sync skipped on the quota error of a limited plan
    ops,            \* history: operations of the owner and the provider so far
    interrupts,     \* history: sync requests cut short
    accepted,       \* history: the accepted result each email was last linked under
    hookLog,        \* what the last step's webhook request carried, saw and was answered
    sweepLog,       \* what the last step's duplicate cleanup read and answered
    parseLog,       \* what the last step's batch extraction was given and returned
    payLog,         \* what the last step's payment operation of the dashboard did
    calls,          \* the creation requests in progress at the gate (one per slot)
    crowded         \* history: downgraded while holding more than 10 active bills, not upgraded since

vars == <<bills, nextBillId, payments, nextPaymentId, syncedEmails, rejectedBills,
          prefs, mailbox, now, sync, gateLog, cand, lastRun, quotaRejected,
          ops, interrupts, accepted, hookLog, sweepLog, parseLog, payLog, calls, crowded>>

----------------------------------------------------------------------------
(* Nullable values: null is the empty tuple, a value v is <<v>>.            *)

Null == <<>>
Some(v) == <<v>>
IsNull(x) == x = <<>>
Val(x) == x[1]

\* JavaScript `x ?? d`: d only when x is null or undefined.
NullishOr(x, d) == IF IsNull(x) THEN d ELSE x

\* JavaScript `x || d` on a nullable number: d when x is null or 0.
FalsyOr(x, d) == IF IsNull(x) \/ Val(x) = 0 THEN d ELSE x

----------------------------------------------------------------------------
(* Bounds of the model.                                                     *)

MaxEmails == 2      \* messages that ever arrive in the mailbox
MaxClock == 2       \* hours the clock may advance
MaxNewBills == 3    \* Bill rows inserted on top of the starting store
MaxOps == 2         \* operations of the owner and the provider besides sync
MaxPayments == 2    \* payments recorded
MaxInterrupts == 1  \* sync requests cut short

----------------------------------------------------------------------------
(* Program constants.                                                       *)

DEFAULT_BILLS_LIMIT == 10       \* bills/create/route.ts:106
FREE_BILLS_LIMIT == 10          \* webhook, customer.subscription.deleted
CONFIDENCE_THRESHOLD == 70      \* sync-gmail/route.ts:129
AMOUNT_TOLERANCE == 500         \* sync-gmail/route.ts:134, 0.50 dollars in mills
DEFAULT_DUE_DAY == 1            \* sync-gmail/route.ts:143, 167
ONE_HOUR == 1                   \* sync-gmail/route.ts:70
LOOKBACK_HOURS == 8760          \* sync-gmail/route.ts:73, 365 days

BILL_CATEGORIES ==
    {"Utilities", "Subscriptions", "Insurance", "Housing", "Transportation",
     "Healthcare", "Credit Cards", "Food & Dining", "Entertainment", "Other"}

----------------------------------------------------------------------------
(* Names and the ILIKE match of PostgreSQL.                                 *)

EmptyName == <<>>     \* "" and null: both falsy in every test the code makes
NameAcme == <<"A", "c", "m", "e">>
NameACME == <<"A", "C", "M", "E">>
NameRent == <<"R", "e", "n", "t">>

LowerChar(c) ==
    CASE c = "A" -> "a" [] c = "B" -> "b" [] c = "C" -> "c" [] c = "D" -> "d" [] c = "E" -> "e" [] c = "F" -> "f"
      [] c = "G" -> "g" [] c = "H" -> "h" [] c = "I" -> "i" [] c = "J" -> "j" [] c = "K" -> "k" [] c = "L" -> "l"
      [] c = "M" -> "m" [] c = "N" -> "n" [] c = "O" -> "o" [] c = "P" -> "p" [] c = "Q" -> "q" [] c = "R" -> "r"
      [] c = "S" -> "s" [] c = "T" -> "t" [] c = "U" -> "u" [] c = "V" -> "v" [] c = "W" -> "w" [] c = "X" -> "x"
      [] c = "Y" -> "y" [] c = "Z" -> "z"
      [] OTHER -> c

LowerStr(s) == [i \in 1..Len(s) |-> LowerChar(s[i])]

\* value LIKE pattern: % any run, _ any one character, \ escapes the next one;
\* a pattern ending in a lone \ is an error, and the query then returns no rows.
RECURSIVE LikeMatch(_, _)
LikeMatch(s, p) ==
    IF p = <<>> THEN s = <<>>
    ELSE IF Head(p) = "%"
         THEN \E k \in 0..Len(s) : LikeMatch(SubSeq(s, k + 1, Len(s)), Tail(p))
    ELSE IF Head(p) = "\\"
         THEN /\ Len(p) > 1
              /\ s # <<>>
              /\ Head(s) = p[2]
              /\ LikeMatch(Tail(s), Tail(Tail(p)))
    ELSE /\ s # <<>>
         /\ (Head(p) = "_" \/ Head(s) = Head(p))
         /\ LikeMatch(Tail(s), Tail(p))

ILike(value, pattern) == LikeMatch(LowerStr(value), LowerStr(pattern))

----------------------------------------------------------------------------
(* Amounts.                                                                 *)

\* Number(x).toFixed(2) and the DECIMAL(10,2) column: round to the cent.
Round2(m) == IF m >= 0 THEN ((m + 5) \div 10) * 10 ELSE 0 - (((0 - m) + 5) \div 10) * 10

----------------------------------------------------------------------------
(* The creation gate: POST /api/bills/create.                               *)

\* `!billData.name || !billData.amount || !billData.due_day`
MissingRequired(req) ==
    \/ req.name = EmptyName
    \/ IsNull(req.amount) \/ Val(req.amount) = 0
    \/ IsNull(req.due_day) \/ Val(req.due_day) = 0

InvalidAmount(req) == Val(req.amount) <= 0

InvalidDueDay(req) == Val(req.due_day) < 1 \/ Val(req.due_day) > 31

\* `billData.category || 'Other'`
CategoryOf(req) == IF req.category = "" THEN "Other" ELSE req.category

\* the count query: active bills of the owner
ActiveCount(B) == Cardinality({b \in B : b.is_active})

\* variant: the stored limit without the default, null meaning no limit
BillsLimitAsStored(P) == P.bills_limit
\* `prefs?.bills_limit ?? 10`
BillsLimit(P) == NullishOr(P.bills_limit, Some(DEFAULT_BILLS_LIMIT))

\* variant: a gate that refuses only above the limit
QuotaReachedOffByOne(billCount, billsLimit) ==
    ~IsNull(billsLimit) /\ billCount > Val(billsLimit)
\* `billsLimit !== null && billCount !== null && billCount >= billsLimit`
QuotaReached(billCount, billsLimit) ==
    ~IsNull(billsLimit) /\ billCount >= Val(billsLimit)

NoBill == [id |-> 0]

ErrorResponse(status) ==
    [status |-> status, upgradeRequired |-> FALSE, currentCount |-> Null,
     limit |-> Null, tier |-> "", bill |-> NoBill]

NewBillRow(id, req) ==
    [id |-> id, name |-> req.name, amount |-> Round2(Val(req.amount)),
     due_day |-> Val(req.due_day), category |-> CategoryOf(req),
     notes |-> req.notes, is_active |-> TRUE]

\* The response of the gate for the request req, with the store holding the
\* rows B and the preferences row P; id is the uuid the insert would draw;
\* fault names the store query that fails, if one does.
Gate(B, P, id, req, fault) ==
    IF MissingRequired(req) THEN ErrorResponse(400)
    ELSE IF InvalidAmount(req) THEN ErrorResponse(400)
    ELSE IF InvalidDueDay(req) THEN ErrorResponse(400)
    ELSE IF CategoryOf(req) \notin BILL_CATEGORIES THEN ErrorResponse(400)
    ELSE IF fault = "count" THEN ErrorResponse(500)
    ELSE IF QuotaReached(ActiveCount(B), BillsLimit(P))
         THEN [status |-> 403, upgradeRequired |-> TRUE,
               currentCount |-> Some(ActiveCount(B)), limit |-> BillsLimit(P),
               tier |-> P.subscription_tier, bill |-> NoBill]
    ELSE IF fault = "insert" THEN ErrorResponse(500)
    ELSE [status |-> 201, upgradeRequired |-> FALSE, currentCount |-> Null,
          limit |-> Null, tier |-> "", bill |-> NewBillRow(id, req)]

\* `res.ok && data.bill`
Created(resp) == resp.status = 201 /\ resp.bill # NoBill

GateFaults == {"none", "count", "insert"}

NoCall == [called |-> FALSE]

\* no webhook request in the last step
NoHook == [called |-> FALSE]

\* no duplicate cleanup in the last step
NoSweep == [called |-> FALSE]

\* no payment operation of the dashboard in the last step
NoPay == [called |-> FALSE, op |-> "none"]

\* no batch extraction in the last step, and none asked for
NoParse == [called |-> FALSE, pending |-> FALSE]

GateCall(req, fault, resp) ==
    [called |-> TRUE, req |-> req, fault |-> fault, bills_limit |-> prefs.bills_limit,
     tier |-> prefs.subscription_tier, activeBefore |-> ActiveCount(bills),
     before |-> bills, resp |-> resp]

----------------------------------------------------------------------------
(* The bill extractor's results: what parseBillFromEmail can return.  The   *)
(* model is a completion endpoint sampled at its default temperature, so a  *)
(* call may answer differently for the same message.                        *)

Parsed(isBill, name, amount, dueDay, confidence) ==
    [isBill |-> isBill, name |-> name, amount |-> amount, dueDay |-> dueDay,
     category |-> "Utilities", confidence |-> confidence]

\* the catch branch of parseBillFromEmail
FailedParse ==
    [isBill |-> FALSE, name |-> EmptyName, amount |-> Null, dueDay |-> Null,
     category |-> "Other", confidence |-> 0]

Results ==
    { Parsed(TRUE, NameAcme, Some(10000), Some(15), 90),
      Parsed(TRUE, NameACME, Some(10400), Some(15), 70),
      Parsed(TRUE, NameAcme, Some(10800), Some(15), 95),
      Parsed(TRUE, NameAcme, Some(10000), Some(15), 69),
      Parsed(TRUE, EmptyName, Some(10000), Some(15), 90),
      Parsed(TRUE, NameAcme, Null, Null, 90),
      Parsed(TRUE, NameAcme, Some(0), Some(15), 99),
      FailedParse }

\* one accepted and one rejected result, for the specification of all operations
CoreResults == {Parsed(TRUE, NameAcme, Some(10000), Some(15), 90), FailedParse}

\* two accepted results that are not duplicates of each other, and a rejected one
ClockResults == CoreResults \cup {Parsed(TRUE, NameAcme, Some(10800), Some(15), 95)}

----------------------------------------------------------------------------
(* The Gmail sync: POST /api/sync-gmail.                                    *)

SyncedEmailIds == {r.email_id : r \in syncedEmails}

\* variant: a full scan also when the last sync is exactly one hour old
AfterDateInclusive(lastSync, t) ==
    IF IsNull(lastSync) \/ Val(lastSync) >= t - ONE_HOUR
    THEN t - LOOKBACK_HOURS
    ELSE Val(lastSync)
\* the 'after' timestamp of the search:
\* `(!lastSync || lastSync > oneHourAgo) ? now - 365 days : lastSync`
AfterDate(lastSync, t) ==
    IF IsNull(lastSync) \/ Val(lastSync) > t - ONE_HOUR
    THEN t - LOOKBACK_HOURS
    ELSE Val(lastSync)

\* searchBillEmails: the ids of the messages Gmail lists for `after:`.  Every
\* message of the model matches the keyword query, and maxResults (50) is
\* above MaxEmails.
SearchBillEmails(after) == {m.id : m \in {x \in mailbox : x.date >= after}}

\* variant: a sync that does not filter by the markers
NewEmailsUnfiltered(emails, syncedIds) == emails
\* `emails.filter(e => !syncedEmailIds.has(e.id))`
NewEmails(emails, syncedIds) == emails \ syncedIds

\* variant: an acceptance test without the confidence threshold
AcceptsAnyConfidence(parsed) ==
    /\ parsed.isBill
    /\ parsed.name # EmptyName
    /\ ~IsNull(parsed.amount) /\ Val(parsed.amount) > 0
\* `parsed && parsed.isBill && parsed.confidence >= 70 && parsed.name && hasValidAmount`
Accepts(parsed) ==
    /\ parsed.isBill
    /\ parsed.confidence >= CONFIDENCE_THRESHOLD
    /\ parsed.name # EmptyName
    /\ ~IsNull(parsed.amount) /\ Val(parsed.amount) > 0

\* variant: a chain that tests the confidence before isBill
RejectionReasonConfidenceFirst(parsed) ==
    IF parsed.confidence < CONFIDENCE_THRESHOLD THEN <<"Low confidence", parsed.confidence>>
    ELSE IF ~parsed.isBill THEN <<"Not recognized as bill">>
    ELSE IF parsed.name = EmptyName THEN <<"No company name found">>
    ELSE IF IsNull(parsed.amount) THEN <<"No amount found in email">>
    ELSE IF Val(parsed.amount) <= 0 THEN <<"Invalid amount", Val(parsed.amount)>>
    ELSE <<"Unknown reason">>
\* the chain of conditionals that names why a candidate was rejected
RejectionReason(parsed) ==
    IF ~parsed.isBill THEN <<"Not recognized as bill">>
    ELSE IF parsed.confidence < CONFIDENCE_THRESHOLD
         THEN <<"Low confidence", parsed.confidence>>
    ELSE IF parsed.name = EmptyName THEN <<"No company name found">>
    ELSE IF IsNull(parsed.amount) THEN <<"No amount found in email">>
    ELSE IF Val(parsed.amount) <= 0 THEN <<"Invalid amount", Val(parsed.amount)>>
    ELSE <<"Unknown reason">>

\* `parsed.dueDay || 1`
DueDayOrDefault(parsed) == FalsyOr(parsed.dueDay, Some(DEFAULT_DUE_DAY))

\* the duplicate query: the active bills that match the candidate
ExistingBills(B, parsed) ==
    {b \in B :
        /\ ILike(b.name, parsed.name)
        /\ b.amount >= Round2(Val(parsed.amount)) - AMOUNT_TOLERANCE
        /\ b.amount <= Round2(Val(parsed.amount)) + AMOUNT_TOLERANCE
        /\ b.due_day = Val(DueDayOrDefault(parsed))
        /\ b.is_active}

\* the body of the creation request the sync sends for the message e; the
\* notes quote the subject of the message, and each message has its own
SyncRequest(parsed, e) ==
    [name |-> parsed.name, amount |-> parsed.amount, due_day |-> DueDayOrDefault(parsed),
     category |-> parsed.category, notes |-> <<"Auto-detected from", e>>]

RejectedRow(e, parsed) ==
    [email_id |-> e, parsed_name |-> parsed.name, parsed_amount |-> FalsyOr(parsed.amount, Null),
     parsed_due_day |-> FalsyOr(parsed.dueDay, Null), parsed_category |-> parsed.category,
     confidence |-> parsed.confidence, rejection_reason |-> RejectionReason(parsed)]

\* insert into synced_emails under UNIQUE(user_id, email_id); the code does
\* not look at the error of a refused insert
InsertSynced(rows, row) ==
    IF row.email_id \in {r.email_id : r \in rows} THEN rows ELSE rows \cup {row}

----------------------------------------------------------------------------
(* State of a sync request, and the records its steps leave behind.         *)

Procs == {1}

\* sync requests that may be in progress at the same time
MaxSyncs == 2

Syncers == 1..MaxSyncs

\* prev: how the run before this one ended, "none" once anything else happened;
\* clean: every message listed so far was fetched and got its marker, and
\*        nothing but the run itself has acted since it started;
\* wrote: the run has inserted a Bill or a SyncedEmail row;
\* failed: the messages of this run whose creation call failed.
IdleRun ==
    [pc |-> "idle", todo |-> {}, pending |-> Null, clean |-> TRUE, prev |-> "none",
     wrote |-> FALSE, failed |-> {}, checked |-> Null]

NoCand == [done |-> FALSE, started |-> FALSE]

\* an operation other than the sync itself happened: no run is any longer
\* "in succession" to the one before it, and a run in progress will not end
\* as one that saw the whole store and mailbox
Disturb(s) ==
    [p \in DOMAIN s |-> [s[p] EXCEPT !.prev = "none", !.clean = (s[p].pc = "idle")]]

\* ids of the rows the starting store holds: FillerBase + 1 .. FillerBase + n
FillerBase == MaxNewBills + 100

FillerRow(i) ==
    [id |-> FillerBase + i, name |-> NameRent, amount |-> 500000, due_day |-> 1,
     category |-> "Housing", notes |-> Null, is_active |-> TRUE]

\* active bills the owner starts with, all entered by hand through the gate
StartCounts == {0, DEFAULT_BILLS_LIMIT - 1}

DefaultPrefs ==
    [subscription_tier |-> "free", subscription_status |-> Null,
     bills_limit |-> Some(DEFAULT_BILLS_LIMIT), stripe_subscription_id |-> Null,
     stripe_customer_id |-> Null, last_gmail_sync |-> Null,
     gmail_sync_enabled |-> FALSE, google_access_token |-> Null]

EmailIds == 1..MaxEmails

\* creation requests that may be in progress at the gate at the same time
MaxCalls == 2

Calls == 1..MaxCalls

\* a slot with no request in progress
IdleCall ==
    [pc |-> "idle",
     req |-> [name |-> EmptyName, amount |-> Null, due_day |-> Null, category |-> "",
              notes |-> Null],
     bills_limit |-> Null, tier |-> ""]

\* the history flag after a webhook request that moved the preferences row
\* from P to P2: set by the downgrade of a Pro owner who holds more than 10
\* active bills, cleared by an upgrade
CrowdedAfter(P, P2) ==
    IF P2.subscription_tier = "pro" THEN FALSE
    ELSE IF P.subscription_tier = "pro" THEN ActiveCount(bills) > FREE_BILLS_LIMIT
         ELSE crowded

\* the store, the mailbox and the requests, with no extraction asked for
InitStore ==
    /\ \E n \in StartCounts : bills = {FillerRow(i) : i \in 1..n}
    /\ nextBillId = 1
    /\ payments = {}
    /\ nextPaymentId = 1
    /\ syncedEmails = {}
    /\ rejectedBills = {}
    /\ prefs = DefaultPrefs
    /\ mailbox = {}
    /\ now = 0
    /\ sync = [p \in Syncers |-> IdleRun]
    /\ gateLog = NoCall
    /\ cand = NoCand
    /\ lastRun = "none"
    /\ quotaRejected = {}
    /\ ops = 0
    /\ interrupts = 0
    /\ accepted = [e \in EmailIds |-> Null]
    /\ hookLog = NoHook
    /\ sweepLog = NoSweep
    /\ payLog = NoPay
    /\ calls = [r \in Calls |-> IdleCall]
    /\ crowded = FALSE

Init == InitStore /\ parseLog = NoParse

----------------------------------------------------------------------------
(* Environment.                                                             *)

\* a message matching the bill keywords is delivered
MailArrives ==
    /\ Cardinality(mailbox) < MaxEmails
    /\ mailbox' = mailbox \cup {[id |-> Cardinality(mailbox) + 1, date |-> now]}
    /\ gateLog' = NoCall /\ hookLog' = NoHook /\ sweepLog' = NoSweep /\ parseLog' = NoParse /\ payLog' = NoPay /\ UNCHANGED <<calls, crowded>> /\ cand' = NoCand
    /\ lastRun' = "none" /\ sync' = Disturb(sync)
    /\ UNCHANGED <<bills, nextBillId, payments, nextPaymentId, syncedEmails, rejectedBills,
                   prefs, now, quotaRejected, ops, interrupts, accepted>>

\* an hour passes
Tick ==
    /\ now < MaxClock
    /\ now' = now + 1
    /\ gateLog' = NoCall /\ hookLog' = NoHook /\ sweepLog' = NoSweep /\ parseLog' = NoParse /\ payLog' = NoPay /\ UNCHANGED <<calls, crowded>> /\ cand' = NoCand
    /\ UNCHANGED <<bills, nextBillId, payments, nextPaymentId, syncedEmails, rejectedBills,
                   prefs, mailbox, sync, lastRun, quotaRejected, ops,
                   interrupts, accepted>>

----------------------------------------------------------------------------
(* Manual entry: the Add Bill form posts to the gate.                       *)

ManualRequest(name, amount, due_day, category) ==
    [name |-> name, amount |-> amount, due_day |-> due_day, category |-> category,
     notes |-> Null]

ManualRequests ==
    { ManualRequest(NameRent, Some(500000), Some(1), "Housing"),
      ManualRequest(EmptyName, Some(500000), Some(1), "Housing"),
      ManualRequest(NameRent, Some(0 - 5000), Some(1), "Housing"),
      ManualRequest(NameRent, Some(500000), Some(32), "Housing"),
      ManualRequest(NameRent, Some(500000), Some(1), "Bogus") }

\* the calls of the form: a store fault is tried on the valid request only,
\* the invalid ones are answered before the store is read
ManualCalls ==
    {<<req, fault>> \in ManualRequests \X GateFaults :
        fault = "none" \/ ~(MissingRequired(req) \/ InvalidAmount(req) \/ InvalidDueDay(req)
                             \/ req.category \notin BILL_CATEGORIES)}

ManualCreate(req, fault) ==
    /\ LET resp == Gate(bills, prefs, nextBillId, req, fault) IN
        /\ (nextBillId <= MaxNewBills /\ ops < MaxOps) \/ ~Created(resp)
        /\ gateLog' = GateCall(req, fault, resp) /\ hookLog' = NoHook /\ sweepLog' = NoSweep /\ parseLog' = NoParse /\ payLog' = NoPay /\ UNCHANGED <<calls, crowded>>
        /\ IF Created(resp)
           THEN bills' = bills \cup {resp.bill} /\ nextBillId' = nextBillId + 1
                /\ ops' = ops + 1
           ELSE UNCHANGED <<bills, nextBillId, ops>>
    /\ cand' = NoCand
    /\ lastRun' = "none" /\ sync' = Disturb(sync)
    /\ UNCHANGED <<payments, nextPaymentId, syncedEmails, rejectedBills, prefs, mailbox,
                   now, quotaRejected, interrupts, accepted>>

----------------------------------------------------------------------------
(* The creation gate, step by step.  A step ends where the handler awaits   *)
(* the store: the preferences query, the count query, the insert.  Nothing  *)
(* ties the three together, so that the steps of requests in progress at    *)
(* the same time may fall in any order.                                     *)

\* the rest of the store during a step of the gate; the gate's log is left
\* to the step
GateFrame ==
    /\ hookLog' = NoHook /\ sweepLog' = NoSweep /\ parseLog' = NoParse /\ payLog' = NoPay
    /\ cand' = NoCand /\ lastRun' = "none" /\ sync' = Disturb(sync)
    /\ UNCHANGED <<payments, nextPaymentId, syncedEmails, rejectedBills, prefs, mailbox,
                   now, quotaRejected, ops, interrupts, accepted, crowded>>

\* the preferences row as the request in the slot read it
PrefsRead(call) ==
    [prefs EXCEPT !.bills_limit = call.bills_limit, !.subscription_tier = call.tier]

\* From the start of the handler to the preferences query: the validation,
\* then the read of bills_limit and subscription_tier.
GateBegin(r, req) ==
    /\ calls[r].pc = "idle"
    /\ IF MissingRequired(req) \/ InvalidAmount(req) \/ InvalidDueDay(req)
          \/ CategoryOf(req) \notin BILL_CATEGORIES
       THEN /\ gateLog' = GateCall(req, "none", ErrorResponse(400))
            /\ UNCHANGED calls
       ELSE /\ gateLog' = NoCall
            /\ calls' = [calls EXCEPT ![r] = [pc |-> "count", req |-> req,
                                              bills_limit |-> prefs.bills_limit,
                                              tier |-> prefs.subscription_tier]]
    /\ UNCHANGED <<bills, nextBillId>>
    /\ GateFrame

\* The count query and the test of the limit: the request is answered with
\* the 500 of a failed count or the quota error, or goes on to the insert.
GateCount(r, fault) ==
    /\ calls[r].pc = "count"
    /\ LET resp == Gate(bills, PrefsRead(calls[r]), nextBillId, calls[r].req, fault) IN
        IF Created(resp)
        THEN /\ gateLog' = NoCall
             /\ calls' = [calls EXCEPT ![r].pc = "insert"]
        ELSE /\ gateLog' = GateCall(calls[r].req, fault, resp)
             /\ calls' = [calls EXCEPT ![r] = IdleCall]
    /\ UNCHANGED <<bills, nextBillId>>
    /\ GateFrame

\* The insert and the answer.
GateInsert(r, fault) ==
    /\ calls[r].pc = "insert"
    /\ nextBillId <= MaxNewBills
    /\ LET resp == IF fault = "insert" THEN ErrorResponse(500)
                   ELSE Gate({}, PrefsRead(calls[r]), nextBillId, calls[r].req, "none") IN
        /\ gateLog' = GateCall(calls[r].req, fault, resp)
        /\ IF Created(resp)
           THEN bills' = bills \cup {resp.bill} /\ nextBillId' = nextBillId + 1
           ELSE UNCHANGED <<bills, nextBillId>>
    /\ calls' = [calls EXCEPT ![r] = IdleCall]
    /\ GateFrame

----------------------------------------------------------------------------
(* The sync request, step by step.  A step ends where the handler awaits    *)
(* the store or the gate, so that an interruption can fall between them.    *)

\* what the start of a request leaves behind: the 'after' timestamp it gave
\* to the search, the last sync time it read and the time of the request
StartRecord(after) ==
    [done |-> FALSE, started |-> TRUE, after |-> after, lastSync |-> prefs.last_gmail_sync,
     at |-> now]

\* From the start of the handler to the extraction: read the markers, search
\* the mailbox, filter.  lost are the listed messages whose details could not
\* be fetched (getEmailDetails returns null for them).  With nothing new the
\* handler records the sync time and returns.
SyncStart(p, lost) ==
    /\ sync[p].pc = "idle"
    /\ LET afterDate == AfterDate(prefs.last_gmail_sync, now)
           found == SearchBillEmails(afterDate)
           emails == found \ lost
           newEmails == NewEmails(emails, SyncedEmailIds)
       IN  /\ lost \subseteq found
           /\ cand' = StartRecord(afterDate)
           /\ IF newEmails = {}
              THEN /\ prefs' = [prefs EXCEPT !.last_gmail_sync = Some(now)]
                   /\ sync' = sync
                   /\ lastRun' = IF lost = {} THEN "clean" ELSE "dirty"
              ELSE /\ sync' = [sync EXCEPT ![p] =
                                 [pc |-> "loop", todo |-> newEmails, pending |-> Null,
                                  clean |-> (lost = {}), prev |-> lastRun,
                                  wrote |-> FALSE, failed |-> {}, checked |-> Null]]
                   /\ lastRun' = "none"
                   /\ UNCHANGED prefs
    /\ gateLog' = NoCall /\ hookLog' = NoHook /\ sweepLog' = NoSweep /\ parseLog' = NoParse /\ payLog' = NoPay /\ UNCHANGED <<calls, crowded>>
    /\ UNCHANGED <<bills, nextBillId, payments, nextPaymentId, syncedEmails, rejectedBills,
                   mailbox, now, quotaRejected, ops, interrupts, accepted>>

\* The run after the creation call for e failed: `continue` on a quota error,
\* the logged error response and the caught exception all lead to the next
\* message of the list; e gets no marker.
AfterFailureAborts(s, e) ==
    [s EXCEPT !.todo = {}, !.clean = FALSE, !.failed = @ \cup {e}]

AfterFailure(s, e) ==
    [s EXCEPT !.todo = @ \ {e}, !.clean = FALSE, !.failed = @ \cup {e}]

CandRecord(p, e, parsed, path, billId) ==
    [done |-> TRUE, started |-> FALSE, proc |-> p, email |-> e, parsed |-> parsed, path |-> path,
     billId |-> billId, billsBefore |-> bills, rejectedBefore |-> rejectedBills,
     quotaRejectedBefore |-> quotaRejected]

\* One turn of the loop up to the write of the marker: the candidate e with
\* the extractor's result parsed is rejected and logged.
SyncReject(p, e, parsed) ==
    /\ sync[p].pc = "loop" /\ e \in sync[p].todo
    /\ ~Accepts(parsed)
    /\ rejectedBills' = rejectedBills \cup {RejectedRow(e, parsed)}
    /\ sync' = [sync EXCEPT ![p].pc = "mark", ![p].todo = @ \ {e},
                            ![p].pending = Some([email_id |-> e, bill_id |-> Null])]
    /\ cand' = CandRecord(p, e, parsed, "rejected", Null)
    /\ gateLog' = NoCall /\ hookLog' = NoHook /\ sweepLog' = NoSweep /\ parseLog' = NoParse /\ payLog' = NoPay /\ UNCHANGED <<calls, crowded>>
    /\ UNCHANGED <<bills, nextBillId, payments, nextPaymentId, syncedEmails, prefs, mailbox,
                   now, lastRun, quotaRejected, ops, interrupts, accepted>>

\* ... the candidate is accepted and an active bill matches it: the match
\* the store returns under limit(1), which has no order, is reused.
SyncReuse(p, e, parsed, b) ==
    /\ sync[p].pc = "loop" /\ e \in sync[p].todo
    /\ Accepts(parsed)
    /\ b \in ExistingBills(bills, parsed)
    /\ sync' = [sync EXCEPT ![p].pc = "mark", ![p].todo = @ \ {e},
                            ![p].pending = Some([email_id |-> e, bill_id |-> Some(b.id)])]
    /\ cand' = CandRecord(p, e, parsed, "reused", Some(b.id))
    /\ accepted' = [accepted EXCEPT ![e] = Some(parsed)]
    /\ gateLog' = NoCall /\ hookLog' = NoHook /\ sweepLog' = NoSweep /\ parseLog' = NoParse /\ payLog' = NoPay /\ UNCHANGED <<calls, crowded>>
    /\ UNCHANGED <<bills, nextBillId, payments, nextPaymentId, syncedEmails, rejectedBills,
                   prefs, mailbox, now, lastRun, quotaRejected, ops,
                   interrupts>>

\* ... the candidate is accepted, no active bill matches it, and the request
\* to the gate does not come back (fetch throws).
SyncCreateThrows(p, e, parsed) ==
    /\ sync[p].pc = "loop" /\ e \in sync[p].todo
    /\ Accepts(parsed)
    /\ ExistingBills(bills, parsed) = {}
    /\ sync' = [sync EXCEPT ![p] = AfterFailure(@, e)]
    /\ cand' = CandRecord(p, e, parsed, "threw", Null)
    /\ gateLog' = NoCall /\ hookLog' = NoHook /\ sweepLog' = NoSweep /\ parseLog' = NoParse /\ payLog' = NoPay /\ UNCHANGED <<calls, crowded>>
    /\ UNCHANGED <<bills, nextBillId, payments, nextPaymentId, syncedEmails, rejectedBills,
                   prefs, mailbox, now, lastRun, quotaRejected, ops,
                   interrupts, accepted>>

\* ... the candidate is accepted, no active bill matches it, and the gate
\* answers the creation request.
SyncCreate(p, e, parsed, fault) ==
    /\ sync[p].pc = "loop" /\ e \in sync[p].todo
    /\ Accepts(parsed)
    /\ ExistingBills(bills, parsed) = {}
    /\ LET resp == Gate(bills, prefs, nextBillId, SyncRequest(parsed, e), fault) IN
        /\ nextBillId <= MaxNewBills \/ ~Created(resp)
        /\ gateLog' = GateCall(SyncRequest(parsed, e), fault, resp) /\ hookLog' = NoHook /\ sweepLog' = NoSweep /\ parseLog' = NoParse /\ payLog' = NoPay /\ UNCHANGED <<calls, crowded>>
        /\ IF Created(resp)
           THEN /\ bills' = bills \cup {resp.bill}
                /\ nextBillId' = nextBillId + 1
                /\ sync' = [sync EXCEPT ![p].pc = "mark", ![p].todo = @ \ {e},
                                ![p].pending = Some([email_id |-> e,
                                                     bill_id |-> Some(resp.bill.id)]),
                                ![p].wrote = TRUE]
                /\ cand' = CandRecord(p, e, parsed, "created", Some(resp.bill.id))
                /\ accepted' = [accepted EXCEPT ![e] = Some(parsed)]
                /\ UNCHANGED quotaRejected
           ELSE /\ sync' = [sync EXCEPT ![p] = AfterFailure(@, e)]
                /\ quotaRejected' = IF resp.upgradeRequired /\ ~IsNull(prefs.bills_limit)
                                     THEN quotaRejected \cup {e} ELSE quotaRejected
                /\ cand' = CandRecord(p, e, parsed,
                                      IF resp.upgradeRequired THEN "quota" ELSE "failed", Null)
                /\ UNCHANGED <<bills, nextBillId, accepted>>
    /\ UNCHANGED <<payments, nextPaymentId, syncedEmails, rejectedBills, prefs, mailbox,
                   now, lastRun, ops, interrupts>>

\* The same turn in two steps, as the handler awaits the store between
\* them: first the duplicate query finds no active bill for the candidate...
SyncCheck(p, e, parsed) ==
    /\ sync[p].pc = "loop" /\ e \in sync[p].todo
    /\ Accepts(parsed)
    /\ ExistingBills(bills, parsed) = {}
    /\ sync' = [sync EXCEPT ![p].pc = "post",
                            ![p].checked = Some([email |-> e, parsed |-> parsed])]
    /\ cand' = NoCand
    /\ gateLog' = NoCall /\ hookLog' = NoHook /\ sweepLog' = NoSweep /\ parseLog' = NoParse /\ payLog' = NoPay /\ UNCHANGED <<calls, crowded>>
    /\ UNCHANGED <<bills, nextBillId, payments, nextPaymentId, syncedEmails, rejectedBills,
                   prefs, mailbox, now, lastRun, quotaRejected, ops,
                   interrupts, accepted>>

\* ... then the creation request is sent to the gate and answered.
SyncPost(p, fault) ==
    /\ sync[p].pc = "post"
    /\ LET e == Val(sync[p].checked).email
           parsed == Val(sync[p].checked).parsed
           resp == Gate(bills, prefs, nextBillId, SyncRequest(parsed, e), fault)
       IN
        /\ nextBillId <= MaxNewBills \/ ~Created(resp)
        /\ gateLog' = GateCall(SyncRequest(parsed, e), fault, resp) /\ hookLog' = NoHook /\ sweepLog' = NoSweep /\ parseLog' = NoParse /\ payLog' = NoPay /\ UNCHANGED <<calls, crowded>>
        /\ IF Created(resp)
           THEN /\ bills' = bills \cup {resp.bill}
                /\ nextBillId' = nextBillId + 1
                /\ sync' = [sync EXCEPT ![p].pc = "mark", ![p].todo = @ \ {e},
                                ![p].checked = Null,
                                ![p].pending = Some([email_id |-> e,
                                                     bill_id |-> Some(resp.bill.id)]),
                                ![p].wrote = TRUE]
                /\ cand' = CandRecord(p, e, parsed, "created", Some(resp.bill.id))
                /\ accepted' = [accepted EXCEPT ![e] = Some(parsed)]
                /\ UNCHANGED quotaRejected
           ELSE /\ sync' = [sync EXCEPT ![p] = [AfterFailure(@, e) EXCEPT !.pc = "loop",
                                                                        !.checked = Null]]
                /\ quotaRejected' = IF resp.upgradeRequired /\ ~IsNull(prefs.bills_limit)
                                     THEN quotaRejected \cup {e} ELSE quotaRejected
                /\ cand' = CandRecord(p, e, parsed,
                                      IF resp.upgradeRequired THEN "quota" ELSE "failed", Null)
                /\ UNCHANGED <<bills, nextBillId, accepted>>
    /\ UNCHANGED <<payments, nextPaymentId, syncedEmails, rejectedBills, prefs, mailbox,
                   now, lastRun, ops, interrupts>>

\* The insert into synced_emails that ends a turn of the loop.
SyncMark(p) ==
    /\ sync[p].pc = "mark"
    /\ syncedEmails' = InsertSynced(syncedEmails, Val(sync[p].pending))
    /\ sync' = [sync EXCEPT ![p].pc = "loop", ![p].pending = Null, ![p].wrote = TRUE]
    /\ gateLog' = NoCall /\ hookLog' = NoHook /\ sweepLog' = NoSweep /\ parseLog' = NoParse /\ payLog' = NoPay /\ UNCHANGED <<calls, crowded>> /\ cand' = NoCand
    /\ UNCHANGED <<bills, nextBillId, payments, nextPaymentId, rejectedBills, prefs, mailbox,
                   now, lastRun, quotaRejected, ops, interrupts, accepted>>

\* After the loop: record the sync time and answer.
SyncFinish(p) ==
    /\ sync[p].pc = "loop" /\ sync[p].todo = {}
    /\ prefs' = [prefs EXCEPT !.last_gmail_sync = Some(now)]
    /\ lastRun' = IF sync[p].clean THEN "clean" ELSE "dirty"
    /\ sync' = [sync EXCEPT ![p] = IdleRun]
    /\ gateLog' = NoCall /\ hookLog' = NoHook /\ sweepLog' = NoSweep /\ parseLog' = NoParse /\ payLog' = NoPay /\ UNCHANGED <<calls, crowded>> /\ cand' = NoCand
    /\ UNCHANGED <<bills, nextBillId, payments, nextPaymentId, syncedEmails, rejectedBills,
                   mailbox, now, quotaRejected, ops, interrupts, accepted>>

\* The process serving the request stops (restart, timeout) between two steps.
SyncInterrupt(p) ==
    /\ sync[p].pc # "idle"
    /\ interrupts < MaxInterrupts
    /\ interrupts' = interrupts + 1
    /\ sync' = [sync EXCEPT ![p] = IdleRun]
    /\ lastRun' = "none"
    /\ gateLog' = NoCall /\ hookLog' = NoHook /\ sweepLog' = NoSweep /\ parseLog' = NoParse /\ payLog' = NoPay /\ UNCHANGED <<calls, crowded>> /\ cand' = NoCand
    /\ UNCHANGED <<bills, nextBillId, payments, nextPaymentId, syncedEmails, rejectedBills,
                   prefs, mailbox, now, quotaRejected, ops, accepted>>

----------------------------------------------------------------------------
(* The other operations on the same rows.                                   *)

\* the rows the user acts on: the fillers are alike, one stands for them
Touchable(b) == b.id <= FillerBase + 1

\* handleDeleteBill (dashboard), handleDelete (bills page): soft delete
DeleteBill(b) ==
    /\ b \in bills /\ b.is_active /\ Touchable(b)
    /\ ops < MaxOps
    /\ ops' = ops + 1
    /\ bills' = (bills \ {b}) \cup {[b EXCEPT !.is_active = FALSE]}
    /\ gateLog' = NoCall /\ hookLog' = NoHook /\ sweepLog' = NoSweep /\ parseLog' = NoParse /\ payLog' = NoPay /\ UNCHANGED <<calls, crowded>> /\ cand' = NoCand
    /\ lastRun' = "none" /\ sync' = Disturb(sync)
    /\ UNCHANGED <<nextBillId, payments, nextPaymentId, syncedEmails, rejectedBills, prefs,
                   mailbox, now, quotaRejected, interrupts, accepted>>

\* the hours of the model's month: the clock starts with a month of 31 days
MonthHours == 744

MonthOf(t) == t \div MonthHours

\* fetchData: the payments whose paid_at lies in the month of the clock t
PaymentsOfMonth(Q, t) == {q \in Q : MonthOf(q.paid_at) = MonthOf(t)}

\* `isPaidThisMonth: paymentsResult.data?.some((p) => p.bill_id === bill.id)`
IsPaidThisMonth(billId, Q, t) == \E q \in PaymentsOfMonth(Q, t) : q.bill_id = billId

\* variant: an undo that deletes every payment of the bill of the row id
DeletePaymentsOfBill(Q, id) ==
    {q \in Q : \A r \in Q : r.id = id => q.bill_id # r.bill_id}
\* `.from('payments').delete().eq('id', id)`
DeletePayment(Q, id) == {q \in Q : q.id # id}

PayCall(op, billId, id, deleted) ==
    [called |-> TRUE, op |-> op, bill |-> billId, id |-> id, deleted |-> deleted,
     before |-> payments, paidBefore |-> IsPaidThisMonth(billId, payments, now),
     unmarks |-> (payLog.op = "mark" /\ payLog.id = id),
     markedFrom |-> IF payLog.op = "mark" THEN payLog.before ELSE {},
     markedPaid |-> (payLog.op = "mark" /\ payLog.paidBefore)]

\* markBillAsPaid (dashboard): one payment row
MarkPaid(b) ==
    /\ b \in bills /\ b.is_active /\ Touchable(b)
    /\ nextPaymentId <= MaxPayments
    /\ ops < MaxOps
    /\ ops' = ops + 1
    /\ payments' = payments \cup {[id |-> nextPaymentId, bill_id |-> b.id, paid_at |-> now]}
    /\ nextPaymentId' = nextPaymentId + 1
    /\ payLog' = PayCall("mark", b.id, nextPaymentId, FALSE) /\ UNCHANGED <<calls, crowded>>
    /\ gateLog' = NoCall /\ hookLog' = NoHook /\ sweepLog' = NoSweep /\ parseLog' = NoParse /\ cand' = NoCand
    /\ lastRun' = "none" /\ sync' = Disturb(sync)
    /\ UNCHANGED <<bills, nextBillId, syncedEmails, rejectedBills, prefs, mailbox, now,
                   quotaRejected, interrupts, accepted>>

\* the payments operations that leave the rest of the store alone
UndoFrame ==
    /\ UNCHANGED <<calls, crowded>>
    /\ gateLog' = NoCall /\ hookLog' = NoHook /\ sweepLog' = NoSweep /\ parseLog' = NoParse /\ cand' = NoCand
    /\ lastRun' = "none" /\ sync' = Disturb(sync)
    /\ UNCHANGED <<bills, nextBillId, nextPaymentId, syncedEmails, rejectedBills, prefs,
                   mailbox, now, quotaRejected, ops, interrupts, accepted>>

\* the Undo of the toast of markBillAsPaid: deletes the row the insert
\* returned (`data.id`), if it is still there
UndoToast(id) ==
    /\ id < nextPaymentId
    /\ payments' = DeletePayment(payments, id)
    /\ LET rows == {q \in payments : q.id = id}
       IN  payLog' = PayCall("undo", IF rows = {} THEN 0 ELSE (CHOOSE q \in rows : TRUE).bill_id,
                             id, rows # {})
    /\ UndoFrame

\* handleUndoPayment (dashboard): deletes the first payment of the bill in
\* the list that fetchData read; the select has no ORDER BY, so any payment
\* of the bill in the month may come first
UndoPayment(b, q) ==
    /\ b \in bills /\ b.is_active
    /\ q \in PaymentsOfMonth(payments, now) /\ q.bill_id = b.id
    /\ payments' = DeletePayment(payments, q.id)
    /\ payLog' = PayCall("undo", b.id, q.id, TRUE)
    /\ UndoFrame

\* `CHECK (due_day >= 1 AND due_day <= 31)` of the bills table
DueDayCheck(row) == row.due_day >= 1 /\ row.due_day <= 31

\* what the edit form may send: parseFloat(formData.amount), parseInt(formData.due_day)
EditAmounts == {0 - 5000, 4}
EditDueDays == {0, 31, 32}

\* handleSubmit (bills page) on an existing bill: the row is updated in the
\* store directly, without the gate; the table's CHECK refuses the update of
\* a due day out of range, the DECIMAL(10,2) column rounds the amount.
EditBill(b, amount, due_day) ==
    /\ b \in bills /\ b.is_active /\ Touchable(b)
    /\ ops < MaxOps
    /\ ops' = ops + 1
    /\ LET row == [b EXCEPT !.amount = Round2(amount), !.due_day = due_day]
       IN  bills' = IF DueDayCheck(row) THEN (bills \ {b}) \cup {row} ELSE bills
    /\ gateLog' = NoCall /\ hookLog' = NoHook /\ sweepLog' = NoSweep /\ parseLog' = NoParse /\ payLog' = NoPay /\ UNCHANGED <<calls, crowded>> /\ cand' = NoCand
    /\ lastRun' = "none" /\ sync' = Disturb(sync)
    /\ UNCHANGED <<nextBillId, payments, nextPaymentId, syncedEmails, rejectedBills, prefs,
                   mailbox, now, quotaRejected, interrupts, accepted>>

\* `.like('notes', 'Auto-detected from%')`
AutoDetected(b) == b.notes # Null /\ b.notes[1] = "Auto-detected from"

\* POST /api/resync-gmail: optionally delete the auto-detected bills (their
\* payments go with them, ON DELETE CASCADE), clear every marker, forget the
\* last sync time.
Resync(deleteAutoDetectedBills) ==
    /\ ops < MaxOps
    /\ ops' = ops + 1
    /\ LET deleted == IF deleteAutoDetectedBills THEN {b \in bills : AutoDetected(b)} ELSE {}
       IN  /\ bills' = bills \ deleted
           /\ payments' = {q \in payments : q.bill_id \notin {b.id : b \in deleted}}
    /\ syncedEmails' = {}
    /\ prefs' = [prefs EXCEPT !.last_gmail_sync = Null]
    /\ gateLog' = NoCall /\ hookLog' = NoHook /\ sweepLog' = NoSweep /\ parseLog' = NoParse /\ payLog' = NoPay /\ UNCHANGED <<calls, crowded>> /\ cand' = NoCand
    /\ lastRun' = "none" /\ sync' = Disturb(sync)
    /\ UNCHANGED <<nextBillId, nextPaymentId, rejectedBills, mailbox, now, quotaRejected,
                   interrupts, accepted>>

\* webhook checkout.session.completed for the owner
CheckoutCompleted ==
    /\ ops < MaxOps
    /\ ops' = ops + 1
    /\ prefs' = [prefs EXCEPT !.subscription_tier = "pro", !.subscription_status = Some("active"),
                              !.stripe_subscription_id = Some("sub"), !.bills_limit = Null]
    /\ crowded' = CrowdedAfter(prefs, prefs')
    /\ gateLog' = NoCall /\ hookLog' = NoHook /\ sweepLog' = NoSweep /\ parseLog' = NoParse /\ payLog' = NoPay /\ UNCHANGED calls /\ cand' = NoCand
    /\ lastRun' = "none" /\ sync' = Disturb(sync)
    /\ UNCHANGED <<bills, nextBillId, payments, nextPaymentId, syncedEmails, rejectedBills,
                   mailbox, now, quotaRejected, interrupts, accepted>>

\* webhook customer.subscription.deleted for the owner's customer id
SubscriptionDeleted ==
    /\ ops < MaxOps
    /\ ops' = ops + 1
    /\ prefs' = [prefs EXCEPT !.subscription_tier = "free",
                              !.subscription_status = Some("canceled"),
                              !.stripe_subscription_id = Null,
                              !.bills_limit = Some(FREE_BILLS_LIMIT)]
    /\ crowded' = CrowdedAfter(prefs, prefs')
    /\ gateLog' = NoCall /\ hookLog' = NoHook /\ sweepLog' = NoSweep /\ parseLog' = NoParse /\ payLog' = NoPay /\ UNCHANGED calls /\ cand' = NoCand
    /\ lastRun' = "none" /\ sync' = Disturb(sync)
    /\ UNCHANGED <<bills, nextBillId, payments, nextPaymentId, syncedEmails, rejectedBills,
                   mailbox, now, quotaRejected, interrupts, accepted>>

----------------------------------------------------------------------------
(* The Stripe webhook endpoint (api/stripe/webhook) and the checkout        *)
(* request that gives the owner a customer id.                              *)

OwnerId == "owner"
OwnerCustomer == "cus_owner"

\* CHECK (subscription_status IN (...) OR subscription_status IS NULL)
SubscriptionStatuses == {"active", "past_due", "canceled", "trialing"}

HookTypes ==
    {"checkout.session.completed", "customer.subscription.updated",
     "customer.subscription.deleted", "invoice.payment_failed",
     "invoice.payment_succeeded", "charge.refunded"}

\* A webhook request.  signature: the stripe-signature header ("none" when
\* absent); customer: the customer id of the event's object; userId: the
\* session's metadata.userId; subscription: the session's subscription id;
\* status: the subscription's status.
HookEvent(type, signature, customer, userId, subscription, status) ==
    [type |-> type, signature |-> signature, customer |-> customer, userId |-> userId,
     subscription |-> subscription, status |-> status]

\* the requests tried: a field takes several values for the event types
\* whose handler reads it
HookEvents ==
    UNION {
        {HookEvent("checkout.session.completed", sg, c, u, sb, "active") :
            u \in {Null, Some(OwnerId), Some("stranger")}, sb \in {"sub_1", "sub_2"}}
        \cup {HookEvent("customer.subscription.updated", sg, c, Null, "sub_1", st) :
                 st \in SubscriptionStatuses \cup {"unpaid"}}
        \cup {HookEvent(t, sg, c, Null, "sub_1", "active") :
                 t \in HookTypes \ {"checkout.session.completed",
                                     "customer.subscription.updated"}}
        : sg \in {"none", "bad", "good"}, c \in {OwnerCustomer, "cus_unknown"}}

\* what the store or the process may do to a request: nothing, fail the
\* lookup, fail the update, throw
HookFaults == {"none", "find", "update", "throw"}

\* constructWebhookEvent: throws without STRIPE_WEBHOOK_SECRET and on a
\* signature that does not verify; TRUE when the event is returned
constructWebhookEvent(signature, secret) == secret /\ signature = "good"

FindAnyCustomer(P, customerId, fault) == fault # "find"

\* `.eq('stripe_customer_id', customerId).single()`: the row, when it is
\* the one that matches and the query is answered
FindByCustomer(P, customerId, fault) ==
    fault # "find" /\ P.stripe_customer_id = Some(customerId)

\* variant: an upgrade that leaves bills_limit as it was
HandleCheckoutCompletedKeepsLimit(P, ev, fault) ==
    IF IsNull(ev.userId) THEN P
    ELSE IF Val(ev.userId) = OwnerId /\ fault # "update"
         THEN [P EXCEPT !.subscription_tier = "pro",
                        !.subscription_status = Some("active"),
                        !.stripe_subscription_id = Some(ev.subscription)]
         ELSE P

HandleCheckoutCompletedKeepsSubscription(P, ev, fault) ==
    IF IsNull(ev.userId) \/ Val(ev.userId) # OwnerId THEN P
    ELSE [P EXCEPT !.subscription_tier = "pro",
                   !.subscription_status = Some("active"),
                   !.stripe_subscription_id = NullishOr(@, Some(ev.subscription)),
                   !.bills_limit = Null]

\* case 'checkout.session.completed'
HandleCheckoutCompleted(P, ev, fault) ==
    IF IsNull(ev.userId) THEN P
    ELSE IF Val(ev.userId) = OwnerId /\ fault # "update"
         THEN [P EXCEPT !.subscription_tier = "pro",
                        !.subscription_status = Some("active"),
                        !.stripe_subscription_id = Some(ev.subscription),
                        !.bills_limit = Null]
         ELSE P

\* case 'customer.subscription.updated': the store refuses a status outside
\* the CHECK constraint
HandleSubscriptionUpdated(P, ev, fault) ==
    IF ~FindByCustomer(P, ev.customer, fault) THEN P
    ELSE IF fault = "update" \/ ev.status \notin SubscriptionStatuses THEN P
         ELSE [P EXCEPT !.subscription_status = Some(ev.status)]

HandleSubscriptionDeletedKeepsLimit(P, ev, fault) ==
    IF ~FindByCustomer(P, ev.customer, fault) THEN P
    ELSE [P EXCEPT !.subscription_tier = "free",
                   !.subscription_status = Some("canceled"),
                   !.stripe_subscription_id = Null]

\* case 'customer.subscription.deleted'
HandleSubscriptionDeleted(P, ev, fault) ==
    IF ~FindByCustomer(P, ev.customer, fault) THEN P
    ELSE IF fault = "update" THEN P
         ELSE [P EXCEPT !.subscription_tier = "free",
                        !.subscription_status = Some("canceled"),
                        !.bills_limit = Some(FREE_BILLS_LIMIT),
                        !.stripe_subscription_id = Null]

\* variant: a second failed payment in a row cancels the subscription
HandlePaymentFailedEscalates(P, ev, fault) ==
    IF ~FindByCustomer(P, ev.customer, fault) THEN P
    ELSE IF fault = "update" THEN P
         ELSE [P EXCEPT !.subscription_status =
                            IF @ = Some("past_due") THEN Some("canceled") ELSE Some("past_due")]

\* case 'invoice.payment_failed'
HandlePaymentFailed(P, ev, fault) ==
    IF ~FindByCustomer(P, ev.customer, fault) THEN P
    ELSE IF fault = "update" THEN P
         ELSE [P EXCEPT !.subscription_status = Some("past_due")]

WasPastDueAnyStatus(P) == TRUE

\* `.eq('user_id', ...).eq('subscription_status', 'past_due')`
WasPastDue(P) == P.subscription_status = Some("past_due")

\* case 'invoice.payment_succeeded'
HandlePaymentSucceeded(P, ev, fault) ==
    IF ~FindByCustomer(P, ev.customer, fault) THEN P
    ELSE IF fault = "update" \/ ~WasPastDue(P) THEN P
         ELSE [P EXCEPT !.subscription_status = Some("active")]

\* the switch on event.type
ProcessEvent(P, ev, fault) ==
    CASE ev.type = "checkout.session.completed" -> HandleCheckoutCompleted(P, ev, fault)
      [] ev.type = "customer.subscription.updated" -> HandleSubscriptionUpdated(P, ev, fault)
      [] ev.type = "customer.subscription.deleted" -> HandleSubscriptionDeleted(P, ev, fault)
      [] ev.type = "invoice.payment_failed" -> HandlePaymentFailed(P, ev, fault)
      [] ev.type = "invoice.payment_succeeded" -> HandlePaymentSucceeded(P, ev, fault)
      [] OTHER -> P

HookResponse(status, received, error) ==
    [status |-> status, received |-> received, error |-> error]

VerifiedAlways(ev, secret) == TRUE

\* the request passed `if (!signature)` and constructWebhookEvent
Verified(ev, secret) ==
    ev.signature # "none" /\ constructWebhookEvent(ev.signature, secret)

\* the answer of the endpoint
WebhookResponse(ev, secret, fault) ==
    IF ev.signature = "none" THEN HookResponse(400, FALSE, "No signature")
    ELSE IF ~constructWebhookEvent(ev.signature, secret)
         THEN HookResponse(400, FALSE, "Invalid signature")
         ELSE IF fault = "throw" THEN HookResponse(200, FALSE, "thrown")
              ELSE HookResponse(200, TRUE, "")

\* the preferences row after the request: a request that is not verified,
\* or whose processing throws before its update, leaves it alone
WebhookEffect(P, ev, secret, fault) ==
    IF Verified(ev, secret) /\ fault # "throw" THEN ProcessEvent(P, ev, fault) ELSE P

\* repeat: the request before this one carried the same event and was served
HookCall(ev, secret, fault, resp) ==
    [called |-> TRUE, ev |-> ev, secret |-> secret, fault |-> fault, before |-> prefs,
     resp |-> resp,
     repeat |-> (hookLog.called /\ hookLog.ev = ev /\ hookLog.secret = secret
                 /\ hookLog.fault = "none")]

\* the calls tried: the store and the process fail on verified requests only
\* (an unverified one is answered before either is used)
HookCalls ==
    {c \in HookEvents \X BOOLEAN \X HookFaults :
        c[3] = "none" \/ (c[2] /\ c[1].signature = "good")}

\* POST /api/stripe/webhook
StripeWebhook(ev, secret, fault) ==
    /\ prefs' = WebhookEffect(prefs, ev, secret, fault)
    /\ hookLog' = HookCall(ev, secret, fault, WebhookResponse(ev, secret, fault))
    /\ crowded' = CrowdedAfter(prefs, WebhookEffect(prefs, ev, secret, fault))
    /\ sweepLog' = NoSweep /\ parseLog' = NoParse /\ payLog' = NoPay /\ UNCHANGED calls
    /\ gateLog' = NoCall /\ cand' = NoCand
    /\ lastRun' = "none" /\ sync' = Disturb(sync)
    /\ UNCHANGED <<bills, nextBillId, payments, nextPaymentId, syncedEmails, rejectedBills,
                   mailbox, now, quotaRejected, ops, interrupts, accepted>>

\* POST /api/stripe/create-checkout: an owner without a customer id gets one;
\* when the update that saves it fails the request goes on without it
CreateCheckout(saved) ==
    /\ IsNull(prefs.stripe_customer_id)
    /\ prefs' = IF saved THEN [prefs EXCEPT !.stripe_customer_id = Some(OwnerCustomer)]
                 ELSE prefs
    /\ gateLog' = NoCall /\ hookLog' = NoHook /\ sweepLog' = NoSweep /\ parseLog' = NoParse /\ payLog' = NoPay /\ UNCHANGED <<calls, crowded>> /\ cand' = NoCand
    /\ lastRun' = "none" /\ sync' = Disturb(sync)
    /\ UNCHANGED <<bills, nextBillId, payments, nextPaymentId, syncedEmails, rejectedBills,
                   mailbox, now, quotaRejected, ops, interrupts, accepted>>

----------------------------------------------------------------------------
(* The preferences requests of the settings page, the Google OAuth          *)
(* callback and the billing portal.                                         *)

\* the rest of the store during a request that writes the preferences row
PrefsFrame ==
    /\ gateLog' = NoCall /\ hookLog' = NoHook /\ sweepLog' = NoSweep /\ parseLog' = NoParse /\ payLog' = NoPay /\ UNCHANGED <<calls, crowded>> /\ cand' = NoCand
    /\ lastRun' = "none" /\ sync' = Disturb(sync)
    /\ ops < MaxOps
    /\ ops' = ops + 1
    /\ UNCHANGED <<bills, nextBillId, payments, nextPaymentId, syncedEmails, rejectedBills,
                   mailbox, now, quotaRejected, interrupts, accepted>>

\* variant: an upsert that writes a whole new row
UpsertReplacingRow(P, enabled) == [DefaultPrefs EXCEPT !.gmail_sync_enabled = enabled]
\* `.upsert({...}, {onConflict: 'user_id'})` on the owner's row: the columns
\* named are written, the others are kept
UpsertPreferences(P, enabled) == [P EXCEPT !.gmail_sync_enabled = enabled]

\* PUT /api/preferences: reminder settings and `gmail_sync_enabled ?? false`
SavePreferences(enabled) ==
    /\ prefs' = UpsertPreferences(prefs, enabled)
    /\ PrefsFrame

\* DELETE /api/preferences: forget the Google tokens and the last sync time
DisconnectGoogle ==
    /\ prefs' = [prefs EXCEPT !.google_access_token = Null, !.gmail_sync_enabled = FALSE,
                              !.last_gmail_sync = Null]
    /\ PrefsFrame

\* GET /api/auth/google/callback: save the tokens, turn the sync on
OAuthCallback ==
    /\ prefs' = [UpsertPreferences(prefs, TRUE) EXCEPT !.google_access_token = Some("token")]
    /\ PrefsFrame

\* POST /api/stripe/create-portal: reads stripe_customer_id, writes nothing
CreatePortal ==
    /\ ~IsNull(prefs.stripe_customer_id)
    /\ UNCHANGED prefs
    /\ PrefsFrame

----------------------------------------------------------------------------
(* Duplicate cleanup (api/cleanup-duplicates).                              *)

NameChaseCreditCard == <<"C", "h", "a", "s", "e", " ", "C", "r", "e", "d", "i", "t", " ", "C", "a", "r", "d">>
NameChaseInk == <<"C", "h", "a", "s", "e", " ", "I", "n", "k", " ", "B", "u", "s", "i", "n", "e", "s", "s", " ", "C", "a", "s", "h", " ", "V", "i", "s", "a">>
NameCreditCard == <<"C", "r", "e", "d", "i", "t", " ", "C", "a", "r", "d">>
NameChaseBank == <<" ", "C", "H", "A", "S", "E", " ", " ", "b", "a", "n", "k">>

\* `.trim()`
RECURSIVE TrimLeft(_)
TrimLeft(s) == IF s # <<>> /\ Head(s) = " " THEN TrimLeft(Tail(s)) ELSE s

RECURSIVE TrimRight(_)
TrimRight(s) ==
    IF s # <<>> /\ s[Len(s)] = " " THEN TrimRight(SubSeq(s, 1, Len(s) - 1)) ELSE s

Trim(s) == TrimRight(TrimLeft(s))

\* `.split(/\s+/)`: the pieces between runs of blanks; word is the piece being
\* read, between is TRUE while a run of blanks is being skipped
RECURSIVE SplitFrom(_, _, _)
SplitFrom(s, word, between) ==
    IF s = <<>> THEN <<word>>
    ELSE IF Head(s) = " "
         THEN IF between THEN SplitFrom(Tail(s), word, TRUE)
              ELSE <<word>> \o SplitFrom(Tail(s), <<>>, TRUE)
         ELSE SplitFrom(Tail(s), word \o <<Head(s)>>, FALSE)

Split(s) == SplitFrom(s, <<>>, FALSE)

\* the card descriptors removed from a name
CardDescriptors ==
    {<<"c", "a", "r", "d">>,
     <<"c", "r", "e", "d", "i", "t">>,
     <<"v", "i", "s", "a">>,
     <<"m", "a", "s", "t", "e", "r", "c", "a", "r", "d">>,
     <<"a", "m", "e", "x">>,
     <<"b", "u", "s", "i", "n", "e", "s", "s">>,
     <<"c", "a", "s", "h">>,
     <<"i", "n", "k">>,
     <<"f", "r", "e", "e", "d", "o", "m">>,
     <<"s", "a", "p", "p", "h", "i", "r", "e">>,
     <<"p", "l", "a", "t", "i", "n", "u", "m">>,
     <<"r", "e", "w", "a", "r", "d", "s">>}

IsKeyword(word) == word \notin CardDescriptors

MainKeywordWholeName(name) == LowerStr(Trim(name))

\* the first word of the normalized name that is no card descriptor, or the
\* whole normalized name when there is none
MainKeyword(name) ==
    LET normalizedName == LowerStr(Trim(name))
        keywords == SelectSeq(Split(normalizedName), IsKeyword)
    IN  IF keywords # <<>> /\ keywords[1] # <<>> THEN keywords[1] ELSE normalizedName

\* `Number(bill.amount).toFixed(2)`
NormalizedAmount(amount) == Round2(amount)

\* `${mainKeyword}|${normalizedAmount}|${bill.due_day}`
GroupKey(b) == <<MainKeyword(b.name), NormalizedAmount(b.amount), b.due_day>>

\* `.order('created_at', { ascending: true })`: ids are drawn in the order
\* of creation, the rows of the starting store before every other
CreatedBefore(a, b) ==
    \/ a.id > FillerBase /\ b.id <= FillerBase
    \/ (a.id > FillerBase) = (b.id > FillerBase) /\ a.id < b.id

\* the bills pushed to the group of key, in the order read
GroupOf(active, key) == {b \in active : GroupKey(b) = key}

\* `const [keep, ...duplicates] = group`, for the groups of two and more
DuplicateIds(active) ==
    {b.id : b \in {x \in active :
                      \E keep \in GroupOf(active, GroupKey(x)) : CreatedBefore(keep, x)}}

SweepFaults == {"none", "select", "update"}

SweepResponse(status, duplicatesRemoved) ==
    [status |-> status, duplicatesRemoved |-> duplicatesRemoved]

\* the answer of the cleanup on the rows B: a select that fails reads as an
\* empty list, an update that fails is answered 500
CleanupResponse(B, fault) ==
    LET active == IF fault = "select" THEN {} ELSE {b \in B : b.is_active}
        duplicateIds == DuplicateIds(active)
    IN  IF active = {} THEN SweepResponse(200, 0)
        ELSE IF duplicateIds # {} /\ fault = "update" THEN SweepResponse(500, 0)
             ELSE SweepResponse(200, Cardinality(duplicateIds))

\* the rows after the cleanup: `.update({ is_active: false }).in('id', duplicateIds)`
CleanupEffect(B, fault) ==
    IF fault # "none" THEN B
    ELSE LET duplicateIds == DuplicateIds({b \in B : b.is_active})
         IN  {IF b.id \in duplicateIds THEN [b EXCEPT !.is_active = FALSE] ELSE b : b \in B}

SweepCall(fault, resp) ==
    [called |-> TRUE, fault |-> fault, before |-> bills, resp |-> resp]

\* POST /api/cleanup-duplicates
CleanupDuplicates(fault) ==
    /\ bills' = CleanupEffect(bills, fault)
    /\ sweepLog' = SweepCall(fault, CleanupResponse(bills, fault))
    /\ parseLog' = NoParse /\ payLog' = NoPay /\ UNCHANGED <<calls, crowded>>
    /\ gateLog' = NoCall /\ hookLog' = NoHook /\ cand' = NoCand
    /\ lastRun' = "none" /\ sync' = Disturb(sync)
    /\ UNCHANGED <<nextBillId, payments, nextPaymentId, syncedEmails, rejectedBills, prefs,
                   mailbox, now, quotaRejected, ops, interrupts, accepted>>

\* the bills the owner enters before a cleanup: card names that differ by
\* descriptors, by case and blanks, by amount and by due day
SweepRequests ==
    {ManualRequest(n, Some(a), Some(d), "Credit Cards") :
        n \in {NameChaseCreditCard, NameChaseInk, NameCreditCard, NameChaseBank},
        a \in {50000, 50010}, d \in {15, 16}}

----------------------------------------------------------------------------
(* The extractor (lib/bill-parser): from the model's response to a result.  *)
(* Every JSON number is counted in thousandths, as the amounts are, so that *)
(* 15.5 can be told from 15.                                                *)

MaxParse == 2        \* emails of a batch whose responses take every value
BigBatch == 6        \* emails of a batch larger than one group
BATCH_SIZE == 5      \* bill-parser.ts:156

\* JSON values; a string is kept as a string of the model (str) or, for a
\* name, as its characters (chars)
JNull == [t |-> "null"]
JBool(b) == [t |-> "boolean", bool |-> b]
JNumber(thousandths) == [t |-> "number", num |-> thousandths]
JString(str) == [t |-> "string", str |-> str]
JName(chars) == [t |-> "name", chars |-> chars]

\* typeof x === 'number'
IsNumber(x) == x.t = "number"

\* Boolean(x), and the test of `x || null`
Truthy(x) ==
    CASE x.t = "null" -> FALSE
      [] x.t = "boolean" -> x.bool
      [] x.t = "number" -> x.num # 0
      [] x.t = "string" -> x.str # ""
      [] x.t = "name" -> x.chars # <<>>

\* the object JSON.parse returns
JObject(isBill, name, amount, dueDay, category, confidence) ==
    [isBill |-> isBill, name |-> name, amount |-> amount, dueDay |-> dueDay,
     category |-> category, confidence |-> confidence]

\* What the model call gives: kind is "throws" (transport error), "non_text"
\* (content[0] is no text), "no_json" (no {...} in the text), "bad_json"
\* (JSON.parse throws) or "json", and then json is the parsed object.
Response(kind, json) == [kind |-> kind, json |-> json]

GoodObject ==
    JObject(JBool(TRUE), JName(NameAcme), JNumber(10000), JNumber(15000),
            JString("Utilities"), JNumber(90000))

\* the objects tried: the good one with one field changed
Objects ==
    {GoodObject}
    \cup {[GoodObject EXCEPT !.isBill = x] : x \in {JBool(FALSE), JNull, JString("yes")}}
    \cup {[GoodObject EXCEPT !.name = x] : x \in {JNull, JName(EmptyName)}}
    \cup {[GoodObject EXCEPT !.amount = x] : x \in {JNull, JString("10"), JNumber(0)}}
    \cup {[GoodObject EXCEPT !.dueDay = x] :
             x \in {JNull, JString("15"), JNumber(0), JNumber(1000), JNumber(31000),
                    JNumber(32000), JNumber(15500), JNumber(0 - 1000)}}
    \cup {[GoodObject EXCEPT !.category = x] :
             x \in {JNull, JString("Bogus"), JString("Other"), JNumber(1000)}}
    \cup {[GoodObject EXCEPT !.confidence = x] :
             x \in {JNull, JString("high"), JNumber(0), JNumber(100000), JNumber(150000),
                    JNumber(0 - 5000), JNumber(85500)}}

Responses ==
    {Response(k, GoodObject) : k \in {"throws", "non_text", "no_json", "bad_json"}}
    \cup {Response("json", o) : o \in Objects}

\* parseBillFromEmail, from the response on
ParseBillFromEmail(response) ==
    IF response.kind # "json" THEN FailedParse
    ELSE LET parsed == response.json IN
         [isBill |-> Truthy(parsed.isBill),
          name |-> IF Truthy(parsed.name) THEN parsed.name.chars ELSE EmptyName,
          amount |-> IF IsNumber(parsed.amount) THEN Some(parsed.amount.num) ELSE Null,
          dueDay |-> IF /\ IsNumber(parsed.dueDay)
                        /\ parsed.dueDay.num >= 1000 /\ parsed.dueDay.num <= 31000
                     THEN Some(parsed.dueDay.num) ELSE Null,
          category |-> IF /\ parsed.category.t = "string"
                          /\ parsed.category.str \in BILL_CATEGORIES
                       THEN parsed.category.str ELSE "Other",
          confidence |-> IF IsNumber(parsed.confidence) THEN parsed.confidence.num ELSE 0]

\* an input of the batch: the email id and what the model will answer for it
Email(id, response) == [id |-> id, response |-> response]

Min(a, b) == IF a <= b THEN a ELSE b

\* `results.set(id, parsed)` for every member of the group
RECURSIVE SetAll(_, _)
SetAll(results, batchResults) ==
    IF batchResults = <<>> THEN results
    ELSE LET r == Head(batchResults)
         IN  SetAll([id \in DOMAIN results \cup {r.id} |->
                        IF id = r.id THEN r.parsed ELSE results[id]],
                    Tail(batchResults))

\* the loop of parseBillsFromEmails from index i (1-based) on
RECURSIVE ParseGroups(_, _, _)
ParseGroups(emails, i, results) ==
    IF i > Len(emails) THEN results
    ELSE LET batch == SubSeq(emails, i, Min(i + BATCH_SIZE - 1, Len(emails)))
             batchResults == [k \in 1..Len(batch) |->
                                 [id |-> batch[k].id,
                                  parsed |-> ParseBillFromEmail(batch[k].response)]]
         IN  ParseGroups(emails, i + BATCH_SIZE, SetAll(results, batchResults))

ParseFirstGroupOnly(emails) ==
    ParseGroups(SubSeq(emails, 1, Min(BATCH_SIZE, Len(emails))), 1, <<>>)

\* parseBillsFromEmails: the map from email id to result
ParseBillsFromEmails(emails) == ParseGroups(emails, 1, <<>>)

\* the batches tried: up to MaxParse emails with every response, and
\* BigBatch emails that each succeed or fail
Batches ==
    UNION {[1..n -> Responses] : n \in 0..MaxParse}
    \cup [1..BigBatch -> {Response("json", GoodObject), Response("throws", GoodObject)}]

\* the emails 1..n of a batch, answered as responses says, wait for the call
ParseInput(responses) ==
    [called |-> FALSE, pending |-> TRUE,
     emails |-> [i \in DOMAIN responses |-> Email(i, responses[i])]]

ParseCall(emails, results) ==
    [called |-> TRUE, pending |-> FALSE, emails |-> emails, results |-> results]

\* the call of parseBillsFromEmails on the waiting batch
ParseBatch ==
    /\ parseLog.pending
    /\ parseLog' = ParseCall(parseLog.emails, ParseBillsFromEmails(parseLog.emails))
    /\ gateLog' = NoCall /\ hookLog' = NoHook /\ sweepLog' = NoSweep /\ cand' = NoCand
    /\ payLog' = NoPay /\ UNCHANGED <<calls, crowded>>
    /\ UNCHANGED <<bills, nextBillId, payments, nextPaymentId, syncedEmails, rejectedBills,
                   prefs, mailbox, now, sync, lastRun, quotaRejected, ops, interrupts,
                   accepted>>

----------------------------------------------------------------------------
(* Specifications.                                                          *)

\* the turns of the loop of process p, the extractor answering from the set R
SyncSteps(p, R) ==
    \/ \E e \in EmailIds, parsed \in R :
           \/ SyncReject(p, e, parsed)
           \/ \E b \in bills : SyncReuse(p, e, parsed, b)
           \/ SyncCreateThrows(p, e, parsed)
           \/ \E fault \in GateFaults : SyncCreate(p, e, parsed, fault)
    \/ SyncMark(p)
    \/ SyncFinish(p)

\* sync requests that Gmail and the host may fail: details not fetched,
\* requests cut short
SyncNext(R) ==
    \E p \in Procs :
        \/ \E lost \in SUBSET {m.id : m \in mailbox} : SyncStart(p, lost)
        \/ SyncSteps(p, R)
        \/ SyncInterrupt(p)

\* sync requests that Gmail and the host let run to their end
SyncQuiet(R) ==
    \E p \in Procs :
        \/ SyncStart(p, {})
        \/ SyncSteps(p, R)

Next ==
    \/ MailArrives
    \/ \E call \in ManualCalls : ManualCreate(call[1], call[2])
    \/ \E b \in bills : DeleteBill(b)
    \/ \E b \in bills : MarkPaid(b)
    \/ \E d \in BOOLEAN : Resync(d)
    \/ CheckoutCompleted
    \/ SubscriptionDeleted
    \/ SyncQuiet(CoreResults)

\* every operation of the owner, the mailbox and the payment provider
Spec == Init /\ [][Next]_vars

SyncOnlyNext == MailArrives \/ SyncNext(Results)

\* sync requests that may fail to fetch a message or be cut short, on a
\* growing mailbox, with every result of the extractor
SpecSync == Init /\ [][SyncOnlyNext]_vars

PolicyNext == MailArrives \/ SyncQuiet(Results)

\* sync requests that run to their end, one after the other, on a growing
\* mailbox, with every result of the extractor
SpecPolicy == Init /\ [][PolicyNext]_vars

\* the owner enters by hand a bill that the mailbox also announces
AcmeRequest == ManualRequest(NameAcme, Some(10800), Some(15), "Utilities")

ReconcileNext ==
    \/ MailArrives
    \/ ManualCreate(AcmeRequest, "none")
    \/ SyncQuiet(Results)

\* manual entry and undisturbed sync requests, with every result of the
\* extractor
SpecReconcile == Init /\ [][ReconcileNext]_vars

ClockNext == MailArrives \/ Tick \/ CheckoutCompleted \/ SyncQuiet(ClockResults)

\* sync requests as the hours pass, with an upgrade of the plan in between
SpecClock == Init /\ [][ClockNext]_vars

RentRequest == ManualRequest(NameRent, Some(500000), Some(1), "Housing")

WebhookNext ==
    \/ \E saved \in BOOLEAN : CreateCheckout(saved)
    \/ \E c \in HookCalls : StripeWebhook(c[1], c[2], c[3])

\* the payment provider's events, in any order, with any signature and any
\* failure of the store, on an owner who may have started a checkout
SpecWebhook == Init /\ [][WebhookNext]_vars

\* the verified requests that the store serves
ServedCalls == {c \in HookCalls : c[1].signature = "good" /\ c[2] /\ c[3] = "none"}

BillingNext ==
    \/ CreateCheckout(TRUE)
    \/ \E c \in ServedCalls : StripeWebhook(c[1], c[2], c[3])
    \/ ManualCreate(RentRequest, "none")

\* the owner adds bills by hand while the provider's events move the plan
SpecBilling == Init /\ [][BillingNext]_vars

CleanupNext ==
    \/ \E req \in SweepRequests : ManualCreate(req, "none")
    \/ \E b \in bills : DeleteBill(b)
    \/ \E fault \in SweepFaults : CleanupDuplicates(fault)

\* the owner enters card bills, deletes some and asks for cleanups
SpecCleanup == Init /\ [][CleanupNext]_vars

\* requests to the gate with amounts and due days at and beyond the limits
\* of its validation (4 is 0.004 dollars)
FieldRequests ==
    { ManualRequest(NameRent, Some(500000), Some(1), "Housing"),
      ManualRequest(NameRent, Some(4), Some(31), "Housing"),
      ManualRequest(NameRent, Some(0 - 5000), Some(1), "Housing"),
      ManualRequest(NameRent, Some(500000), Some(32), "Housing") }

\* results of the extractor with amounts and due days at and beyond the same
\* limits
FieldResults ==
    { Parsed(TRUE, NameAcme, Some(4), Null, 90),
      Parsed(TRUE, NameAcme, Some(10000), Some(40), 90),
      FailedParse }

FieldsNext ==
    \/ MailArrives
    \/ \E req \in FieldRequests : ManualCreate(req, "none")
    \/ \E b \in bills, amount \in EditAmounts, due_day \in EditDueDays :
           EditBill(b, amount, due_day)
    \/ SyncQuiet(FieldResults)

\* bills entered by hand, edited in the form and created by sync, with
\* amounts and due days at and beyond the limits of the validation
SpecFields == Init /\ [][FieldsNext]_vars

PaymentsNext ==
    \/ ManualCreate(RentRequest, "none")
    \/ Tick
    \/ \E b \in bills : MarkPaid(b)
    \/ \E id \in 1..MaxPayments : UndoToast(id)
    \/ \E b \in bills, q \in payments : UndoPayment(b, q)

\* the owner marks bills paid and undoes payments on the dashboard, from
\* the toast and from the list, as the hours pass
SpecPayments == Init /\ [][PaymentsNext]_vars

RaceNext ==
    \/ \E r \in Calls, req \in ManualRequests : GateBegin(r, req)
    \/ \E r \in Calls : GateCount(r, "none") \/ GateCount(r, "count")
    \/ \E r \in Calls : GateInsert(r, "none") \/ GateInsert(r, "insert")

\* creation requests of one owner in progress at the same time, their
\* queries and inserts falling in any order
SpecRace == Init /\ [][RaceNext]_vars

\* the verified, served events that move the plan
PlanCalls ==
    {c \in ServedCalls : c[1].type \in {"checkout.session.completed",
                                        "customer.subscription.deleted"}}

DowngradeNext ==
    \/ CreateCheckout(TRUE)
    \/ \E c \in PlanCalls : StripeWebhook(c[1], c[2], c[3])
    \/ \E r \in Calls : GateBegin(r, RentRequest)
    \/ \E r \in Calls : GateCount(r, "none") \/ GateCount(r, "count")
    \/ \E r \in Calls : GateInsert(r, "none")
    \/ \E b \in bills : DeleteBill(b)

\* creation requests in progress at the same time and deletions, while the
\* provider's events upgrade and downgrade the owner
SpecDowngrade == Init /\ [][DowngradeNext]_vars

\* sync requests in progress at the same time, each awaiting the store
\* between its duplicate query, its creation request and its marker
OverlapNext ==
    \/ MailArrives
    \/ \E p \in Syncers :
        \/ SyncStart(p, {})
        \/ \E e \in EmailIds, parsed \in CoreResults :
               \/ SyncReject(p, e, parsed)
               \/ \E b \in bills : SyncReuse(p, e, parsed, b)
               \/ SyncCheck(p, e, parsed)
        \/ \E fault \in GateFaults : SyncPost(p, fault)
        \/ SyncMark(p)
        \/ SyncFinish(p)

SpecOverlap == Init /\ [][OverlapNext]_vars

\* the requests of the provider that could move the plan, verified or not
PlanRequests ==
    {c \in HookCalls : /\ c[1].type \in {"checkout.session.completed",
                                         "customer.subscription.deleted"}
                       /\ c[1].signature \in {"bad", "good"}
                       /\ c[1].customer = OwnerCustomer
                       /\ c[1].userId = Some(OwnerId)
                       /\ c[1].subscription = "sub_1" /\ c[2] /\ c[3] = "none"}

FrameNext ==
    \/ mailbox = {} /\ MailArrives
    \/ SyncQuiet(CoreResults)
    \/ \E d \in BOOLEAN : Resync(d)
    \/ CleanupDuplicates("none")
    \/ ManualCreate(RentRequest, "none")
    \/ \E enabled \in BOOLEAN : SavePreferences(enabled)
    \/ DisconnectGoogle
    \/ OAuthCallback
    \/ CreateCheckout(TRUE)
    \/ CreatePortal
    \/ \E c \in PlanRequests : ops = 0 /\ StripeWebhook(c[1], c[2], c[3])

\* every request that writes the store, after the provider's events, on a
\* mailbox of one message
SpecFrame == Init /\ [][FrameNext]_vars

\* two accepted results that the duplicate query takes for the same bill,
\* and a rejected one
RescanResults ==
    { Parsed(TRUE, NameAcme, Some(10000), Some(15), 90),
      Parsed(TRUE, NameACME, Some(10400), Some(15), 70),
      FailedParse }

RescanNext ==
    \/ MailArrives
    \/ ManualCreate(AcmeRequest, "none")
    \/ Resync(FALSE)
    \/ SyncQuiet(RescanResults)

\* sync requests that run to their end, a bill entered by hand and the
\* resync that keeps the bills and clears the sync history
SpecRescan == Init /\ [][RescanNext]_vars

InitExtract == InitStore /\ \E responses \in Batches : parseLog = ParseInput(responses)

ExtractNext == ParseBatch

\* a batch extraction, whatever the model answers
SpecExtract == InitExtract /\ [][ExtractNext]_vars

----------------------------------------------------------------------------
(* Properties of the creation gate.                                         *)

\* the last step called the gate with a request that passes its validation
ValidGateCall ==
    /\ gateLog.called
    /\ ~MissingRequired(gateLog.req)
    /\ ~InvalidAmount(gateLog.req)
    /\ ~InvalidDueDay(gateLog.req)
    /\ CategoryOf(gateLog.req) \in BILL_CATEGORIES

\* C1 (as stated): when the owner's bills_limit is null (Pro), a valid
\* creation request that meets no store error is answered with the new
\* Bill, and the row is in the store, whatever the number of active bills.
C1_ProCreationSucceeds ==
    (ValidGateCall /\ IsNull(gateLog.bills_limit) /\ gateLog.fault = "none")
        => (Created(gateLog.resp) /\ gateLog.resp.bill \in bills)

\* C2: when the owner's bills_limit is 10 and 10 bills are active, a valid
\* creation request whose count query is answered gets the quota error
\* (upgradeRequired, currentCount 10, limit 10, the tier), and the bills
\* table is what it was before the call.
C2_QuotaErrorAtLimit ==
    (/\ ValidGateCall
     /\ gateLog.bills_limit = Some(10)
     /\ gateLog.activeBefore = 10
     /\ gateLog.fault # "count")
        => (/\ gateLog.resp.status = 403
            /\ gateLog.resp.upgradeRequired
            /\ gateLog.resp.currentCount = Some(10)
            /\ gateLog.resp.limit = Some(10)
            /\ gateLog.resp.tier = gateLog.tier
            /\ ~Created(gateLog.resp)
            /\ bills = gateLog.before)

\* a valid request reached the gate of a limited owner holding 10 active
\* bills and was refused
C2_Witness ==
    /\ ValidGateCall
    /\ gateLog.bills_limit = Some(10)
    /\ gateLog.activeBefore = 10
    /\ gateLog.fault = "none"
    /\ gateLog.resp.upgradeRequired

----------------------------------------------------------------------------
(* Properties of the sync.                                                  *)

\* C3 (as stated): a sync run that starts right after a run that ended
\* with every listed message fetched and marked, with no mail arrived and
\* no other operation in between (the clock alone may advance), inserts no
\* Bill row and no SyncedEmail row.
C3_SecondRunCreatesNothing ==
    \A p \in Procs : sync[p].prev = "clean" => ~sync[p].wrote

\* C4 (as stated): whatever sequence of sync requests ran, cut short or not,
\* no two Bill rows were created from the same message.
C4_OneBillPerEmail ==
    \A b1 \in bills, b2 \in bills :
        (AutoDetected(b1) /\ AutoDetected(b2) /\ b1.notes = b2.notes) => b1.id = b2.id

AbsDiff(x, y) == IF x >= y THEN x - y ELSE y - x

\* two accepted results that the claim calls duplicates of each other
SameBill(r1, r2) ==
    /\ LowerStr(r1.name) = LowerStr(r2.name)
    /\ AbsDiff(Val(r1.amount), Val(r2.amount)) <= 500
    /\ Val(FalsyOr(r1.dueDay, Some(1))) = Val(FalsyOr(r2.dueDay, Some(1)))

\* C5 (as stated): two messages linked to bills under accepted results with
\* names equal up to case, amounts at most 0.50 apart and equal due days
\* (missing counting as 1) are linked to the same Bill id.
C5_DuplicatesShareOneBill ==
    \A r1 \in syncedEmails, r2 \in syncedEmails :
        (/\ ~IsNull(r1.bill_id) /\ ~IsNull(r2.bill_id)
         /\ ~IsNull(accepted[r1.email_id]) /\ ~IsNull(accepted[r2.email_id])
         /\ SameBill(Val(accepted[r1.email_id]), Val(accepted[r2.email_id])))
            => r1.bill_id = r2.bill_id

\* C6 (as stated): once the owner's limit is lifted (bills_limit null), a
\* message that an earlier run skipped on the quota error and that a run
\* processes again is not refused on the quota error again.
C6_RetriedAfterUpgrade ==
    (/\ cand.done
     /\ cand.email \in cand.quotaRejectedBefore
     /\ IsNull(prefs.bills_limit))
        => cand.path # "quota"

\* C7 (as stated): a candidate with confidence below 70, whatever its other
\* fields, creates no Bill and leaves a RejectedBill row whose reason states
\* the low confidence.
C7_LowConfidenceReason ==
    (cand.done /\ cand.parsed.confidence < 70)
        => /\ bills = cand.billsBefore
           /\ \E r \in rejectedBills :
                 /\ r.email_id = cand.email
                 /\ r.confidence = cand.parsed.confidence
                 /\ r.rejection_reason[1] = "Low confidence"

\* C7 (amended): a candidate with confidence below 70 creates no Bill and
\* leaves a RejectedBill row; its reason states the low confidence with the
\* score when isBill is true, and "Not recognized as bill" when isBill is
\* false.
C7_LowConfidenceRejected ==
    (cand.done /\ cand.parsed.confidence < 70)
        => /\ bills = cand.billsBefore
           /\ cand.path = "rejected"
           /\ \E r \in rejectedBills :
                 /\ r.email_id = cand.email
                 /\ r.confidence = cand.parsed.confidence
                 /\ r.rejection_reason =
                        IF cand.parsed.isBill
                        THEN <<"Low confidence", cand.parsed.confidence>>
                        ELSE <<"Not recognized as bill">>

\* a candidate the extractor called a bill with confidence 69 was processed
C7_Witness ==
    /\ cand.done
    /\ cand.parsed.isBill
    /\ cand.parsed.confidence < 70
    /\ cand.path = "rejected"

\* the acceptance policy, as the claim words it
PolicyMet(parsed) ==
    /\ parsed.isBill
    /\ parsed.confidence >= 70
    /\ parsed.name # <<>>
    /\ ~IsNull(parsed.amount) /\ Val(parsed.amount) > 0

\* C8: a candidate whose result fails the policy (isBill, confidence >= 70,
\* non-empty name, amount > 0) creates no Bill and is linked to none: the
\* bills table is unchanged by its turn and it gets no bill id; and every
\* marker that carries a bill id, written or about to be, belongs to a
\* message whose accepted result met the policy.
C8_AcceptancePolicy ==
    /\ (cand.done /\ ~PolicyMet(cand.parsed))
          => /\ bills = cand.billsBefore
             /\ cand.path \notin {"created", "reused"}
             /\ IsNull(cand.billId)
    /\ \A r \in syncedEmails \cup {Val(sync[p].pending) : p \in {q \in Procs : ~IsNull(sync[q].pending)}} :
          ~IsNull(r.bill_id)
             => (~IsNull(accepted[r.email_id]) /\ PolicyMet(Val(accepted[r.email_id])))

\* a candidate of high confidence with a null or non-positive amount was
\* processed and rejected
C8_Witness ==
    /\ cand.done
    /\ cand.parsed.isBill
    /\ cand.parsed.confidence >= 70
    /\ IsNull(cand.parsed.amount) \/ Val(cand.parsed.amount) <= 0
    /\ cand.path = "rejected"

C10_NoHardDelete ==
    \A i \in 1..(nextBillId - 1) : \E b \in bills : b.id = i

----------------------------------------------------------------------------
(* Properties of the batch.                                                 *)

FailurePaths == {"quota", "failed", "threw"}

\* C11: a creation call that fails (quota error, other error response, thrown
\* exception) does not end the run: the run stays in its loop with every
\* other message of its list still to come, it ends only when the list is
\* empty, and each later candidate of the run is rejected, reused or sent to
\* the gate as the acceptance and duplicate policy says.
C11_FailureDoesNotAbort ==
    [][\A p \in Procs :
          /\ (cand'.done /\ cand'.proc = p /\ cand'.path \in FailurePaths)
                => /\ sync'[p].pc = "loop"
                   /\ sync'[p].todo = sync[p].todo \ {cand'.email}
                   /\ cand'.email \in sync[p].todo
          /\ (sync[p].failed # {} /\ sync[p].pc = "loop" /\ sync'[p].pc = "idle")
                => sync[p].todo = {}
          /\ (sync[p].failed # {} /\ cand'.done /\ cand'.proc = p)
                => /\ cand'.email \in sync[p].todo
                   /\ (cand'.path = "rejected") <=> ~PolicyMet(cand'.parsed)
                   /\ (cand'.path = "reused")
                         <=> (PolicyMet(cand'.parsed)
                              /\ ExistingBills(bills, cand'.parsed) # {})
                   /\ (cand'.path = "rejected")
                         => \E r \in rejectedBills' : r.email_id = cand'.email
      ]_vars

\* after the creation call for one message of the run failed, the next
\* message of the same run was given its turn and a Bill was created for it
C11_Witness ==
    \E p \in Procs :
        /\ cand.done /\ cand.proc = p
        /\ cand.path = "created"
        /\ sync[p].failed # {}
        /\ cand.email \notin sync[p].failed

----------------------------------------------------------------------------
(* Properties of the webhook endpoint.                                      *)

\* the last step was a webhook request of the given type that passed the
\* signature check
VerifiedHook(type) ==
    /\ hookLog.called
    /\ hookLog.ev.type = type
    /\ Verified(hookLog.ev, hookLog.secret)

\* ... for a customer id that the owner's row carried
KnownCustomer == hookLog.before.stripe_customer_id = Some(hookLog.ev.customer)

\* C12: a verified customer.subscription.deleted event whose customer id
\* matches the row, and whose lookup and update the store serves, leaves the
\* row with tier free, status canceled, bills_limit 10 and no subscription
\* id, whatever the row held before; its other columns are untouched.
C12_DeletedDowngrades ==
    (VerifiedHook("customer.subscription.deleted") /\ KnownCustomer /\ hookLog.fault = "none")
        => prefs = [hookLog.before EXCEPT !.subscription_tier = "free",
                                          !.subscription_status = Some("canceled"),
                                          !.bills_limit = Some(10),
                                          !.stripe_subscription_id = Null]

\* the event reached a Pro row with an active subscription and made it free
C12_Witness ==
    /\ VerifiedHook("customer.subscription.deleted") /\ KnownCustomer
    /\ hookLog.fault = "none"
    /\ hookLog.before.subscription_tier = "pro"
    /\ IsNull(hookLog.before.bills_limit)
    /\ ~IsNull(hookLog.before.stripe_subscription_id)
    /\ prefs.subscription_tier = "free"

\* C13: a verified checkout.session.completed event that carries the
\* owner's user id, and whose update the store serves, leaves the row with
\* tier pro, status active, bills_limit null and the session's subscription
\* id, whatever the row held before.
C13_CheckoutUpgrades ==
    (/\ VerifiedHook("checkout.session.completed")
     /\ hookLog.ev.userId = Some(OwnerId)
     /\ hookLog.fault = "none")
        => prefs = [hookLog.before EXCEPT !.subscription_tier = "pro",
                                          !.subscription_status = Some("active"),
                                          !.bills_limit = Null,
                                          !.stripe_subscription_id =
                                               Some(hookLog.ev.subscription)]

\* the event reached a row that held another subscription id and a past_due
\* status, and replaced both
C13_Witness ==
    /\ VerifiedHook("checkout.session.completed")
    /\ hookLog.ev.userId = Some(OwnerId)
    /\ hookLog.fault = "none"
    /\ hookLog.before.subscription_status = Some("past_due")
    /\ ~IsNull(hookLog.before.stripe_subscription_id)
    /\ hookLog.before.stripe_subscription_id # Some(hookLog.ev.subscription)
    /\ prefs.stripe_subscription_id = Some(hookLog.ev.subscription)

\* the columns invoice.payment_failed changes when it finds the customer
\* and its update is served: the status alone
PaymentFailedFrame ==
    (VerifiedHook("invoice.payment_failed") /\ KnownCustomer /\ hookLog.fault = "none")
        => prefs = [hookLog.before EXCEPT !.subscription_status = Some("past_due")]

\* C14 (as stated): invoice.payment_failed for a known customer sets the
\* status to past_due and leaves tier, bills_limit and subscription id
\* alone, and a Pro owner whose status is past_due still has no bill quota:
\* a valid creation request of theirs that meets no store error is answered
\* with the new Bill.
C14_PastDueKeepsQuota ==
    /\ PaymentFailedFrame
    /\ (/\ ValidGateCall
        /\ gateLog.tier = "pro"
        /\ prefs.subscription_status = Some("past_due")
        /\ IsNull(prefs.bills_limit)
        /\ gateLog.fault = "none")
          => Created(gateLog.resp)

\* C15: a verified invoice.payment_succeeded event for a known customer
\* sets the status to active when the stored status was past_due (and the
\* update is served) and changes nothing in the row for any other stored
\* status; tier, bills_limit and subscription id are never changed.
C15_SucceededReactivatesPastDue ==
    (VerifiedHook("invoice.payment_succeeded") /\ KnownCustomer)
        => /\ (hookLog.before.subscription_status = Some("past_due") /\ hookLog.fault = "none")
                 => prefs = [hookLog.before EXCEPT !.subscription_status = Some("active")]
           /\ hookLog.before.subscription_status # Some("past_due")
                 => prefs = hookLog.before
           /\ prefs.subscription_tier = hookLog.before.subscription_tier
           /\ prefs.bills_limit = hookLog.before.bills_limit
           /\ prefs.stripe_subscription_id = hookLog.before.stripe_subscription_id

\* the event reached a past_due row and made it active
C15_Witness ==
    /\ VerifiedHook("invoice.payment_succeeded") /\ KnownCustomer
    /\ hookLog.before.subscription_status = Some("past_due")
    /\ prefs.subscription_status = Some("active")

AlwaysAcknowledged ==
    (hookLog.called /\ Verified(hookLog.ev, hookLog.secret)) => hookLog.resp.status = 200

----------------------------------------------------------------------------
(* Properties of the duplicate cleanup.                                     *)

Deactivated(b) == [b EXCEPT !.is_active = FALSE]

\* C18: after a cleanup that the store served, in every group of the bills
\* that were active and share main keyword, amount to 2 decimals and due
\* day, the earliest created is still active and unchanged and every other
\* member is the same row made inactive; the bills that were inactive are
\* unchanged and no row is added or removed; the reported count is the
\* number of rows made inactive; and "Chase Ink Business Cash Visa"
\* (50.00, 15) created after "Chase Credit Card" (50.00, 15) is made
\* inactive, the first one staying active when nothing older shares their
\* group.
C18_SweepKeepsEarliest ==
    (sweepLog.called /\ sweepLog.fault = "none")
        => LET before == sweepLog.before
               activeBefore == {b \in before : b.is_active}
               group(b) == {x \in activeBefore : GroupKey(x) = GroupKey(b)}
               earliest(b) == \A x \in group(b) \ {b} : CreatedBefore(b, x)
           IN  /\ sweepLog.resp.status = 200
               /\ \A b \in activeBefore :
                      IF earliest(b) THEN b \in bills
                      ELSE Deactivated(b) \in bills /\ b \notin bills
               /\ \A b \in before \ activeBefore : b \in bills
               /\ Cardinality(bills) = Cardinality(before)
               /\ sweepLog.resp.duplicatesRemoved =
                      Cardinality({b \in activeBefore : Deactivated(b) \in bills})
               /\ \A b1 \in activeBefore, b2 \in activeBefore :
                      (/\ b1.name = NameChaseCreditCard /\ b2.name = NameChaseInk
                       /\ b1.amount = 50000 /\ b2.amount = 50000
                       /\ b1.due_day = 15 /\ b2.due_day = 15
                       /\ CreatedBefore(b1, b2))
                         => /\ Deactivated(b2) \in bills /\ b2 \notin bills
                            /\ earliest(b1) => b1 \in bills

\* a cleanup found "Chase Credit Card" and, created after it, "Chase Ink
\* Business Cash Visa", both active at 50.00 on day 15, made the second
\* inactive and reported 1
C18_Witness ==
    /\ sweepLog.called /\ sweepLog.fault = "none"
    /\ sweepLog.resp.duplicatesRemoved = 1
    /\ \E b1 \in sweepLog.before, b2 \in sweepLog.before :
          /\ b1.is_active /\ b2.is_active
          /\ b1.name = NameChaseCreditCard /\ b2.name = NameChaseInk
          /\ b1.amount = 50000 /\ b2.amount = 50000
          /\ b1.due_day = 15 /\ b2.due_day = 15
          /\ CreatedBefore(b1, b2)
          /\ b1 \in bills /\ Deactivated(b2) \in bills

----------------------------------------------------------------------------
(* Properties of the extractor.                                             *)

\* C19: the map returned by the batch extractor has exactly the ids of the
\* input emails as its keys; an email whose extraction failed (transport
\* error, non-text response, no JSON, unparsable JSON) has the fixed result
\* isBill false, name null, amount null, dueDay null, category Other,
\* confidence 0; and an email whose response is the well-formed object has
\* its own result, whatever happened to the others.
C19_OneResultPerInput ==
    parseLog.called
        => LET emails == parseLog.emails
               results == parseLog.results
           IN  /\ DOMAIN results = {emails[i].id : i \in DOMAIN emails}
               /\ \A i \in DOMAIN emails :
                      /\ emails[i].response.kind # "json"
                            => results[emails[i].id] =
                                  [isBill |-> FALSE, name |-> Null, amount |-> Null,
                                   dueDay |-> Null, category |-> "Other", confidence |-> 0]
                      /\ emails[i].response = Response("json", GoodObject)
                            => /\ results[emails[i].id].isBill
                               /\ results[emails[i].id].name = NameAcme
                               /\ results[emails[i].id].amount = Some(10000)
                               /\ results[emails[i].id].confidence = 90000

\* a batch of two groups was extracted: the model call failed for the email
\* of the second group and succeeded for the first email
C19_Witness ==
    /\ parseLog.called
    /\ Len(parseLog.emails) = BigBatch
    /\ parseLog.emails[1].response.kind = "json"
    /\ parseLog.emails[BigBatch].response.kind = "throws"
    /\ parseLog.results[1].isBill
    /\ ~parseLog.results[BigBatch].isBill

\* C20 (as stated): every result the extractor returns has dueDay null or a
\* whole number from 1 to 31, a category of the enum and a confidence from
\* 0 to 100.
C20_ResultDomain ==
    parseLog.called
        => \A id \in DOMAIN parseLog.results :
              LET r == parseLog.results[id]
              IN  /\ \/ IsNull(r.dueDay)
                     \/ /\ Val(r.dueDay) % 1000 = 0
                        /\ Val(r.dueDay) >= 1000 /\ Val(r.dueDay) <= 31000
                  /\ r.category \in BILL_CATEGORIES
                  /\ r.confidence >= 0 /\ r.confidence <= 100000

----------------------------------------------------------------------------
(* Properties of the fields of a Bill.                                      *)

\* C21 (as stated): the due day of every Bill row is between 1 and 31 in
\* every reachable state, and the amount of a Bill is greater than zero
\* when the Bill is created, by manual entry or by sync.
C21_BillFieldInvariant ==
    /\ \A b \in bills : b.due_day >= 1 /\ b.due_day <= 31
    /\ (gateLog.called /\ Created(gateLog.resp)) => gateLog.resp.bill.amount > 0

\* the half of C21 that holds: no row has a due day out of range, whatever
\* is created or edited
C21_DueDayInRange == \A b \in bills : b.due_day >= 1 /\ b.due_day <= 31

----------------------------------------------------------------------------
(* Properties of the payments of the dashboard.                             *)

----------------------------------------------------------------------------
(* Properties of creation requests in progress at the same time.            *)

\* C30 (as stated): an owner whose bills_limit is 10 and who holds at most
\* 10 active bills never holds more than 10, whatever the order in which
\* the count queries and the inserts of the owner's creation requests fall.
C30_QuotaUnderConcurrency ==
    prefs.bills_limit = Some(10) => ActiveCount(bills) <= 10

\* a step in which the request of slot r is decided on an answered count
DecidedOnCount(r) ==
    /\ calls[r].pc = "count" /\ calls'[r].pc # "count"
    /\ ~(gateLog'.called /\ gateLog'.fault = "count")

\* C23: the subscription-deleted event that downgrades a Pro owner holding
\* more than 10 active bills leaves every Bill row as it is, and from then
\* on, until an upgrade, a creation request that is decided while 10 or more
\* bills are active is answered with the quota error and creates nothing.
C23_DowngradeKeepsBills ==
    [][/\ (crowded' /\ ~crowded) => bills' = bills
       /\ \A r \in Calls :
            (crowded /\ DecidedOnCount(r) /\ ActiveCount(bills) >= 10)
                => (/\ gateLog'.called
                    /\ gateLog'.resp.status = 403
                    /\ gateLog'.resp.upgradeRequired
                    /\ ~Created(gateLog'.resp)
                    /\ bills' = bills)]_vars

\* an owner downgraded with more than 10 active bills was refused a bill on
\* the quota
C23_Witness ==
    /\ crowded
    /\ ActiveCount(bills) > 10
    /\ prefs.subscription_tier = "free" /\ prefs.bills_limit = Some(10)
    /\ gateLog.called /\ gateLog.resp.status = 403 /\ gateLog.resp.upgradeRequired

----------------------------------------------------------------------------
(* Properties of sync requests in progress at the same time.                *)

\* the bills that sync created from the message e
BillsFrom(e) == {b \in bills : b.notes = <<"Auto-detected from", e>>}

\* C24 (as stated): with UNIQUE(user_id, email_id) on synced_emails, two
\* sync requests in progress at the same time that both fetch the same new
\* accepted message create at most one Bill from it, however their steps
\* interleave.
C24_OneBillUnderConcurrency ==
    \A e \in EmailIds : Cardinality(BillsFrom(e)) <= 1

----------------------------------------------------------------------------
(* Properties of the writers of the preferences row.                        *)

\* the subscription fields of a preferences row
PlanFields(P) == <<P.subscription_tier, P.subscription_status, P.bills_limit>>

\* C25: a step that changes subscription_tier, subscription_status or
\* bills_limit is a webhook request whose signature verified; the sync, the
\* resync, the cleanup, bill creation, saving preferences, disconnecting
\* Google, the OAuth callback and the checkout and portal requests leave
\* the three fields as they are.
C25_PlanFieldsFrame ==
    [][PlanFields(prefs') # PlanFields(prefs)
          => (hookLog'.called /\ hookLog'.ev.signature = "good" /\ hookLog'.secret)]_vars

\* an owner on the Pro plan, connected to Google, saved the preferences
C25_Witness ==
    /\ prefs.subscription_tier = "pro" /\ IsNull(prefs.bills_limit)
    /\ ~IsNull(prefs.google_access_token)
    /\ ~prefs.gmail_sync_enabled
    /\ ~hookLog.called /\ ~gateLog.called

----------------------------------------------------------------------------
(* Properties of repeated webhook events.                                   *)

\* the last step served a verified request whose event had just been
\* processed by the request before it
ProcessedTwice ==
    /\ hookLog.called /\ hookLog.repeat
    /\ hookLog.ev.signature = "good" /\ hookLog.secret
    /\ hookLog.fault = "none"

\* C26: processing a handled event a second time in a row leaves the
\* preferences row as the first processing left it, whatever the event type
\* and whatever the row was.
C26_HandlersIdempotent == ProcessedTwice => prefs = hookLog.before

\* an invoice.payment_succeeded event of the owner's customer was processed
\* twice in a row and the owner is on the Pro plan, the subscription active
C26_Witness ==
    /\ ProcessedTwice
    /\ hookLog.ev.type = "invoice.payment_succeeded"
    /\ hookLog.ev.customer = OwnerCustomer
    /\ prefs.subscription_tier = "pro"
    /\ prefs.subscription_status = Some("active")

----------------------------------------------------------------------------
(* Properties of the fetch window.                                          *)

----------------------------------------------------------------------------
(* Properties of the re-scan that keeps the bills.                          *)

\* b, as it was before the last step, is the active Bill that a sync created
\* from the message of the candidate, and its name, amount and due day are
\* those of the candidate's result
KeptBillOf(b) ==
    /\ b \in cand.billsBefore
    /\ b.notes = <<"Auto-detected from", cand.email>>
    /\ b.is_active
    /\ b.name = cand.parsed.name
    /\ b.amount = Round2(Val(cand.parsed.amount))
    /\ b.due_day = Val(DueDayOrDefault(cand.parsed))

\* the last step processed, after a resync that kept the bills, a message
\* whose Bill is still there as the same result made it
Rescanned ==
    /\ cand.done
    /\ Accepts(cand.parsed)
    /\ \E b \in cand.billsBefore : KeptBillOf(b)

\* C28 (as stated): a sync that processes again, with the same result, a
\* message whose Bill is still active with the same name, amount and due
\* day creates no Bill and links the message to that Bill.
C28_RescanKeepsBills ==
    Rescanned
        => (/\ bills = cand.billsBefore
            /\ cand.path = "reused"
            /\ \E b \in cand.billsBefore : KeptBillOf(b) /\ cand.billId = Some(b.id))

\* the half of C28 that holds: the re-scan creates no Bill for such a message
C28_RescanCreatesNothing ==
    Rescanned => (bills = cand.billsBefore /\ cand.path = "reused")

----------------------------------------------------------------------------
(* Properties of the plan fields taken together.                            *)

\* C29: from the default preferences row, whatever webhook requests arrive
\* and in whatever order, the tier is pro exactly when bills_limit is null
\* and free exactly when bills_limit is 10.
C29_TierMatchesLimit ==
    /\ prefs.subscription_tier = "pro" <=> IsNull(prefs.bills_limit)
    /\ prefs.subscription_tier = "free" <=> prefs.bills_limit = Some(10)

\* the owner was upgraded and then downgraded by verified events: the row
\* is back to free with the limit of 10, the subscription canceled
C29_Witness ==
    /\ hookLog.called /\ hookLog.ev.type = "customer.subscription.deleted"
    /\ hookLog.before.subscription_tier = "pro" /\ IsNull(hookLog.before.bills_limit)
    /\ prefs.subscription_tier = "free" /\ prefs.bills_limit = Some(10)
    /\ prefs.subscription_status = Some("canceled")

====
